---- MODULE Spec2Model ----
(***************************************************************************)
(* Model of the session-management application (Django app "management"):  *)
(* the role predicates and the activity fan-out of management/utils.py and *)
(* the permission-checked views of management/views.py.                    *)
(***************************************************************************)
EXTENDS Integers, Sequences, FiniteSets, TLC

(***************************************************************************)
(* Bounds of the model.                                                    *)
(***************************************************************************)
NumUsers == 2
MaxTargets == 2

Users == 1..NumUsers
\* Python None where a User is expected (log_activity(None, ...)); also the
\* AnonymousUser of an unauthenticated request in the role predicates.
NoUser == 0

Companies == {"CompanyA", "CompanyB"}
\* Python None where a Company is expected.
NoCompany == "None"
CompanyOrNone == Companies \cup {NoCompany}

\* UserProfile.USER_ROLE_CHOICES; NoRole is the null role.
Roles == {"ADMIN", "MANAGER", "EMPLOYEE"}
NoRole == "NoRole"

\* The null department of a profile (models.py 78).
NoDepartment == 0

Descriptions == {"did something"}

(***************************************************************************)
(* State.                                                                  *)
(*   users       the auth User table joined with its UserProfile row       *)
(*   companies   the Company table, by primary key                         *)
(*   departments the Department table, by primary key                      *)
(*   sessions    the SessionTopic table, by primary key                    *)
(*   activities  the RecentActivity table, in insertion order              *)
(*   learnings   the ExternalTopic table                                    *)
(*   client      the account the client's session is logged in as          *)
(*   call        the last operation: its arguments and its outcome         *)
(***************************************************************************)
VARIABLES users, companies, departments, sessions, learnings, activities,
          client, call

vars ==
    <<users, companies, departments, sessions, learnings, activities, client,
      call>>

\* The entity tables, which log_activity and the role predicates only read.
entities == <<companies, departments, sessions, learnings>>

\* A User row with its optional one-to-one UserProfile (profile = FALSE: the
\* account has no profile and user.userprofile raises RelatedObjectDoesNotExist,
\* so hasattr(user, 'userprofile') is False).
NoProfile(staff) ==
    [is_staff |-> staff, profile |-> FALSE, company |-> NoCompany,
     role |-> NoRole, department |-> NoDepartment]

UserRows ==
    {NoProfile(s) : s \in BOOLEAN}
    \cup [is_staff : BOOLEAN, profile : {TRUE}, company : CompanyOrNone,
          role : Roles \cup {NoRole}, department : {NoDepartment}]

\* user.username and company.name
Username(u) == ToString(u)
CompanyName(c) == c

\* hasattr(u, 'userprofile') and u.userprofile and u.userprofile.company
HasProfileCompany(db, u) ==
    u # NoUser /\ db[u].profile /\ db[u].company # NoCompany

\* The elements of a set of account ids as a list in id order (the order in
\* which an unordered queryset over auth_user yields its rows).
RECURSIVE InIdOrder(_)
InIdOrder(S) ==
    IF S = {} THEN <<>>
    ELSE LET m == CHOOSE x \in S : \A y \in S : x <= y
         IN <<m>> \o InIdOrder(S \ {m})

(***************************************************************************)
(* management/utils.py: log_activity                                       *)
(***************************************************************************)
\* get_company_for_activity that ignores company_param.
get_company_for_activity_own(db, u, company_param) ==
    IF HasProfileCompany(db, u) THEN db[u].company ELSE NoCompany

\* get_company_for_activity(u, company_param)
get_company_for_activity(db, u, company_param) ==
    IF company_param # NoCompany THEN company_param
    ELSE IF HasProfileCompany(db, u) THEN db[u].company
    ELSE NoCompany

\* activity_company: the explicit argument, else the actor's profile company,
\* else edited_user's profile company, else None.
activity_company(db, user, edited_user, company_obj) ==
    IF company_obj # NoCompany THEN company_obj
    ELSE IF HasProfileCompany(db, user) THEN db[user].company
    ELSE IF edited_user # NoUser /\ HasProfileCompany(db, edited_user)
         THEN db[edited_user].company
    ELSE NoCompany

\* A RecentActivity row as created by RecentActivity.objects.create (read
\* defaults to False).
Activity(u, description, company) ==
    [user |-> u, description |-> description, company |-> company, read |-> FALSE]

\* User.objects.filter(is_staff=True, userprofile__company=user_company)
company_admins(db, user_company) ==
    {a \in DOMAIN db : db[a].is_staff /\ db[a].profile /\ db[a].company = user_company}

\* The staff accounts that have no company (the reading "global admins").
super_admins_global_only(db, user_company) ==
    {a \in DOMAIN db : db[a].is_staff /\ ~(db[a].profile /\ db[a].company # NoCompany)}

\* User.objects.filter(is_staff=True).exclude(
\*     userprofile__company=user_company if user_company else None)
\* exclude(userprofile__company=X) keeps the rows without a profile or with
\* another (or a null) company; exclude(userprofile__company=None) is
\* NOT (company IS NULL) and keeps only the rows that have a company.
super_admins(db, user_company) ==
    IF user_company # NoCompany
    THEN {a \in DOMAIN db : db[a].is_staff
                        /\ ~(db[a].profile /\ db[a].company = user_company)}
    ELSE {a \in DOMAIN db : db[a].is_staff /\ db[a].profile
                        /\ db[a].company # NoCompany}

\* f"{user.username} - {description}"
AdminDescription(user, description) ==
    <<Username(user), " - ", description>>

\* f"{user.username} (from {user_company.name if user_company else 'N/A'}) - {description}"
SuperAdminDescription(user, user_company, description) ==
    <<Username(user), " (from ",
      IF user_company # NoCompany THEN CompanyName(user_company) ELSE "N/A",
      ") - ", description>>

\* The description stored unchanged.
PlainDescription(description) == <<description>>

\* The rows of the two admin loops (lines 52-72), for a non-staff actor.
AdminRows(db, user, description, company) ==
    LET user_company == get_company_for_activity(db, user, company)
        ca == IF user_company # NoCompany
              THEN InIdOrder(company_admins(db, user_company)) ELSE <<>>
        processed1 == {ca[i] : i \in DOMAIN ca}
        sa == SelectSeq(InIdOrder(super_admins(db, user_company)),
                        LAMBDA a : a \notin processed1)
    IN [i \in DOMAIN ca |->
            Activity(ca[i], AdminDescription(user, description), user_company)]
       \o
       [i \in DOMAIN sa |->
            Activity(sa[i], SuperAdminDescription(user, user_company, description),
                     NoCompany)]

\* The loop over target_users (lines 75-79) without the processed_users test.
RECURSIVE TargetRowsNoDedup(_, _, _, _, _)
TargetRowsNoDedup(db, targets, processed, description, company) ==
    IF targets = <<>> THEN <<>>
    ELSE <<Activity(Head(targets), PlainDescription(description),
                    get_company_for_activity(db, Head(targets), company))>>
         \o TargetRowsNoDedup(db, Tail(targets), processed, description, company)

\* The loop over target_users (lines 75-79): one row per account not yet in
\* processed_users.
RECURSIVE TargetRows(_, _, _, _, _)
TargetRows(db, targets, processed, description, company) ==
    IF targets = <<>> THEN <<>>
    ELSE LET u == Head(targets)
         IN IF u \in processed
            THEN TargetRows(db, Tail(targets), processed, description, company)
            ELSE <<Activity(u, PlainDescription(description),
                            get_company_for_activity(db, u, company))>>
                 \o TargetRows(db, Tail(targets), processed \cup {u},
                               description, company)

\* The target_users argument: omitted (None), or a list of accounts.
Omitted == [given |-> FALSE, list |-> <<>>]
Given(list) == [given |-> TRUE, list |-> list]

\* The branch taken when edited_user is given (lines 40-43): one row, for
\* edited_user, and return.
EditedRows(db, edited_user, description, company) ==
    <<Activity(edited_user, PlainDescription(description),
               get_company_for_activity(db, edited_user, company))>>

\* The fan-out with the admin loops run for every actor, staff or not.
FanOutNoStaffCheck(db, user, description, target_users, company) ==
    IF user = NoUser THEN [raised |-> TRUE, rows |-> <<>>]
    ELSE LET targets == IF ~target_users.given THEN <<user>>
                        ELSE target_users.list
             admin == AdminRows(db, user, description, company)
             processed == {admin[i].user : i \in DOMAIN admin}
         IN [raised |-> FALSE,
             rows |-> admin \o TargetRows(db, targets, processed,
                                          description, company)]

\* The fan-out (lines 45-79). With user None, target_users defaults to [None]
\* and `user.is_staff` (line 52) raises AttributeError before any row is
\* created.
FanOut(db, user, description, target_users, company) ==
    IF user = NoUser THEN [raised |-> TRUE, rows |-> <<>>]
    ELSE LET targets == IF ~target_users.given THEN <<user>>
                        ELSE target_users.list
             admin == IF ~db[user].is_staff
                      THEN AdminRows(db, user, description, company)
                      ELSE <<>>
             processed == {admin[i].user : i \in DOMAIN admin}
         IN [raised |-> FALSE,
             rows |-> admin \o TargetRows(db, targets, processed,
                                          description, company)]

\* log_activity without the return of line 43: the fan-out follows the row
\* of edited_user.
log_activity_no_return(db, user, description, target_users, edited_user, company_obj) ==
    LET company == activity_company(db, user, edited_user, company_obj)
        rest == FanOut(db, user, description, target_users, company)
    IN IF edited_user # NoUser
       THEN [raised |-> rest.raised,
             rows |-> EditedRows(db, edited_user, description, company)
                      \o rest.rows]
       ELSE rest

\* log_activity(user, description, target_users, edited_user, company_obj):
\* the rows it creates, in order, and whether it raises.
log_activity(db, user, description, target_users, edited_user, company_obj) ==
    LET company == activity_company(db, user, edited_user, company_obj)
    IN IF edited_user # NoUser
       THEN [raised |-> FALSE,
             rows |-> EditedRows(db, edited_user, description, company)]
       ELSE FanOut(db, user, description, target_users, company)

(***************************************************************************)
(* management/utils.py: the role predicates                                *)
(***************************************************************************)
\* user.is_authenticated: True for a User, False for AnonymousUser.
is_authenticated(u) == u # NoUser

\* user.is_staff (False for AnonymousUser).
is_staff(db, u) == u # NoUser /\ db[u].is_staff

\* is_super_admin(user)
is_super_admin(db, u) == is_authenticated(u) /\ is_staff(db, u)

\* get_user_role_in_company that returns the profile's role whatever the
\* company asked about.
get_user_role_any_company(db, u, company_obj) ==
    IF ~is_authenticated(u) \/ ~db[u].profile THEN NoRole ELSE db[u].role

\* get_user_role_in_company(user, company_obj); NoRole is None, NoCompany the
\* omitted company_obj.
get_user_role_in_company(db, u, company_obj) ==
    IF ~is_authenticated(u) \/ ~db[u].profile THEN NoRole
    ELSE IF company_obj # NoCompany
         THEN IF db[u].company = company_obj THEN db[u].role ELSE NoRole
    ELSE db[u].role

\* is_company_admin without the `user.is_staff` test of line 109.
is_company_admin_no_staff_test(db, u, company_obj) ==
    /\ is_authenticated(u)
    /\ get_user_role_in_company(db, u, company_obj) = "ADMIN"

\* is_company_admin(user, company_obj)
is_company_admin(db, u, company_obj) ==
    IF ~is_authenticated(u) \/ is_staff(db, u) THEN FALSE
    ELSE get_user_role_in_company(db, u, company_obj) = "ADMIN"

\* is_manager(user, company_obj)
is_manager(db, u, company_obj) ==
    IF ~is_authenticated(u) \/ is_staff(db, u) THEN FALSE
    ELSE get_user_role_in_company(db, u, company_obj) = "MANAGER"

\* is_employee(user, company_obj)
is_employee(db, u, company_obj) ==
    IF ~is_authenticated(u) \/ is_staff(db, u) THEN FALSE
    ELSE get_user_role_in_company(db, u, company_obj) = "EMPLOYEE"

(***************************************************************************)
(* Specification SpecLog: one call of log_activity on any account table.   *)
(***************************************************************************)
NoCall == [op |-> "none"]

TargetLists == {Given(l) : l \in UNION {[1..n -> Users] : n \in 0..MaxTargets}}

\* No Department and no SessionTopic row; the companies exist under their
\* own names.
NoRows == <<>>
CompanyTable == [c \in Companies |-> [name |-> c]]

InitLog ==
    /\ users \in [Users -> UserRows]
    /\ \A u \in Users : users[u].role = NoRole
    /\ companies = CompanyTable
    /\ departments = NoRows
    /\ sessions = NoRows
    /\ learnings = NoRows
    /\ activities = <<>>
    /\ client = NoUser
    /\ call = NoCall

LogActivity(user, description, target_users, edited_user, company_obj) ==
    /\ call = NoCall
    /\ LET r == log_activity(users, user, description, target_users,
                             edited_user, company_obj)
       IN /\ activities' = activities \o r.rows
          /\ call' = [op |-> "log_activity", user |-> user,
                      description |-> description,
                      target_users |-> target_users,
                      edited_user |-> edited_user,
                      company_obj |-> company_obj,
                      raised |-> r.raised, created |-> r.rows]
    /\ UNCHANGED <<users, entities, client>>

NextLog ==
    /\ call = NoCall
    /\ \E user \in Users \cup {NoUser}, d \in Descriptions,
          t \in TargetLists \cup {Omitted}, e \in Users \cup {NoUser},
          c \in CompanyOrNone :
           LogActivity(user, d, t, e, c)

SpecLog == InitLog /\ [][NextLog]_vars

(***************************************************************************)
(* Claims about log_activity, checked under SpecLog.                       *)
(***************************************************************************)
Logged == call.op = "log_activity"

\* The accounts that received a row in the call.
Recipients == {call.created[i].user : i \in DOMAIN call.created}

\* The accounts named by the target_users argument (the actor when omitted).
TargetSet ==
    IF call.target_users.given
    THEN {call.target_users.list[i] : i \in DOMAIN call.target_users.list}
    ELSE {call.user}

\* u.userprofile.company, None without a profile.
ProfileCompanyOf(u) ==
    IF users[u].profile THEN users[u].company ELSE NoCompany

NonStaffFanOut ==
    /\ Logged
    /\ call.user # NoUser
    /\ ~users[call.user].is_staff
    /\ call.edited_user = NoUser

C2_NoDuplicateRecipient ==
    Logged => Len(call.created) = Cardinality(Recipients)

\* C2 witness: a non-staff actor whose target list repeats a staff account
\* that the admin loops have notified already.
C2_Witness ==
    /\ NonStaffFanOut
    /\ call.target_users.given
    /\ Len(call.target_users.list) = 2
    /\ call.target_users.list[1] = call.target_users.list[2]
    /\ users[call.target_users.list[1]].is_staff
    /\ call.target_users.list[1] \in Recipients

\* C3: with edited_user given, exactly one row is created, for edited_user,
\* whatever the actor and target_users are.
C3_EditedUserOnly ==
    (Logged /\ call.edited_user # NoUser) =>
        /\ ~call.raised
        /\ Len(call.created) = 1
        /\ call.created[1].user = call.edited_user

\* C3 witness: edited_user given together with a non-staff actor and a
\* target list naming another account.
C3_Witness ==
    /\ Logged
    /\ call.edited_user # NoUser
    /\ call.user # NoUser
    /\ ~users[call.user].is_staff
    /\ call.target_users.given
    /\ \E i \in DOMAIN call.target_users.list :
          call.target_users.list[i] # call.edited_user
    /\ Len(call.created) = 1

\* C4 (as claimed): with no actor and no edited_user, log_activity completes
\* without error and creates one row for every staff account, with a
\* description that is not the bare description.
C4_Claim ==
    (Logged /\ call.user = NoUser /\ call.edited_user = NoUser) =>
        /\ ~call.raised
        /\ Recipients = {a \in Users : users[a].is_staff}
        /\ \A i \in DOMAIN call.created :
              call.created[i].description # PlainDescription(call.description)

\* C5: with a staff actor and no edited_user, the recipients are exactly the
\* distinct accounts of target_users (the actor alone when omitted), one row
\* each, with the description unchanged.
C5_StaffActorTargets ==
    (Logged /\ call.user # NoUser /\ users[call.user].is_staff
            /\ call.edited_user = NoUser) =>
        /\ ~call.raised
        /\ Recipients = TargetSet
        /\ Len(call.created) = Cardinality(TargetSet)
        /\ \A i \in DOMAIN call.created :
              call.created[i].description = PlainDescription(call.description)

\* C5 witness: a staff actor naming a non-staff account twice.
C5_Witness ==
    /\ Logged
    /\ call.user # NoUser
    /\ users[call.user].is_staff
    /\ call.edited_user = NoUser
    /\ call.target_users.given
    /\ Len(call.target_users.list) = 2
    /\ call.target_users.list[1] = call.target_users.list[2]
    /\ call.target_users.list[1] # call.user
    /\ Recipients = {call.target_users.list[1]}

\* The company context the claim C6 names: the explicit argument, else the
\* actor's profile company, else edited_user's profile company, else none.
ResolvedCompany ==
    IF call.company_obj # NoCompany THEN call.company_obj
    ELSE IF call.user # NoUser /\ ProfileCompanyOf(call.user) # NoCompany
         THEN ProfileCompanyOf(call.user)
    ELSE IF call.edited_user # NoUser
         THEN ProfileCompanyOf(call.edited_user)
    ELSE NoCompany

InitRole ==
    /\ users \in [Users -> UserRows]
    /\ companies = CompanyTable
    /\ departments = NoRows
    /\ sessions = NoRows
    /\ learnings = NoRows
    /\ activities = <<>>
    /\ client = NoUser
    /\ call = NoCall

RoleCheck(u, company_obj) ==
    /\ call = NoCall
    /\ call' = [op |-> "role_check", user |-> u, company_obj |-> company_obj,
                is_super_admin |-> is_super_admin(users, u),
                role |-> get_user_role_in_company(users, u, company_obj),
                is_company_admin |-> is_company_admin(users, u, company_obj),
                is_manager |-> is_manager(users, u, company_obj),
                is_employee |-> is_employee(users, u, company_obj)]
    /\ UNCHANGED <<users, entities, activities, client>>

NextRole ==
    \E u \in Users \cup {NoUser}, c \in CompanyOrNone : RoleCheck(u, c)

SpecRole == InitRole /\ [][NextRole]_vars

(***************************************************************************)
(* Claims about the role predicates, checked under SpecRole.               *)
(***************************************************************************)
Checked == call.op = "role_check" /\ call.user # NoUser

\* C7: for an account with the staff flag, whatever its profile, is_super_admin
\* is true and is_company_admin, is_manager and is_employee are false, for
\* every company argument and with the company omitted.
C7_StaffExclusive ==
    (Checked /\ users[call.user].is_staff) =>
        /\ call.is_super_admin
        /\ ~call.is_company_admin
        /\ ~call.is_manager
        /\ ~call.is_employee

\* C7 witness: a staff account whose profile has role ADMIN in the company
\* asked about.
C7_Witness ==
    /\ Checked
    /\ users[call.user].is_staff
    /\ users[call.user].profile
    /\ users[call.user].role = "ADMIN"
    /\ call.company_obj \in Companies
    /\ users[call.user].company = call.company_obj
    /\ ~call.is_company_admin

AdminOfCompany ==
    /\ Checked
    /\ users[call.user].profile
    /\ users[call.user].role = "ADMIN"
    /\ users[call.user].company \in Companies

\* C8 (as claimed): for every account whose profile has role ADMIN and
\* company C, is_company_admin(account, C) is true, is_company_admin(account,
\* C2) is false for every other company C2, and
\* get_user_role_in_company(account, C2) is None.
C8_Claim ==
    (AdminOfCompany /\ call.company_obj \in Companies) =>
        IF call.company_obj = users[call.user].company
        THEN call.is_company_admin
        ELSE ~call.is_company_admin /\ call.role = NoRole

\* C8 (amended): the same, with is_company_admin(account, C) true only for an
\* account without the staff flag (for a staff account it is false).
C8_Amended ==
    (AdminOfCompany /\ call.company_obj \in Companies) =>
        IF call.company_obj = users[call.user].company
        THEN call.is_company_admin = ~users[call.user].is_staff
        ELSE ~call.is_company_admin /\ call.role = NoRole

\* C8 witness: a non-staff ADMIN of one company asked about the other company.
C8_Witness ==
    /\ AdminOfCompany
    /\ ~users[call.user].is_staff
    /\ call.company_obj \in Companies \ {users[call.user].company}
    /\ call.role = NoRole

\* C9 (as claimed): for an account with no profile, or with a profile that
\* has no company, get_user_role_in_company is None and is_company_admin,
\* is_manager and is_employee are false, with a company argument and with
\* the company omitted.
C9_Claim ==
    (Checked /\ (~users[call.user].profile
                 \/ users[call.user].company = NoCompany)) =>
        /\ call.role = NoRole
        /\ ~call.is_company_admin
        /\ ~call.is_manager
        /\ ~call.is_employee

(***************************************************************************)
(* management/views.py: the edit views of Company, Department and          *)
(* SessionTopic, with the forms of management/forms.py they validate.      *)
(***************************************************************************)
\* The number of logged activities after which no more request is served.
MaxLogged == 2

\* The names views.py binds from management.utils and django.shortcuts
\* (lines 13 and 37-43); a name outside this set raises NameError when the
\* line that uses it runs.
ViewsNames ==
    {"log_activity", "is_super_admin", "is_company_admin", "is_manager",
     "get_object_or_404", "redirect", "render"}

NameDefined(name) == name \in ViewsNames

\* STATUSES and PLACE_CHOICES of models.py
STATUSES == {"Pending", "Completed", "Cancelled"}
PLACE_CHOICES == {"--- Select Place ---", "Customer Lounge", "Auditorium"}

\* The responses of a view.
Redirect(to) == [kind |-> "redirect", to |-> to]
Render(template) == [kind |-> "render", to |-> template]
ServerError(exception) == [kind |-> "error", to |-> exception]
NotFound == [kind |-> "not_found", to |-> "404"]

Methods == {"GET", "POST"}
NoPost == [none |-> TRUE]
NoRow == [missing |-> TRUE]

\* Primary keys that match no row (get_object_or_404 answers 404).
MissingCompany == "NoSuchCompany"
MissingPk == 0

\* The record of a request and its response; before is the target row as it
\* was when the request arrived.
Request(op, u, method, pk, post, before, response) ==
    [op |-> op, user |-> u, method |-> method, pk |-> pk,
     post |-> post,
     before |-> before, response |-> response]

\* The queryset of the company field of DepartmentForm and SessionTopicForm
\* (forms.py 56-67 and 139-151): the own company for a non-staff account,
\* every company for a staff account.
CompanyQueryset(u) ==
    IF is_staff(users, u) THEN DOMAIN companies
    ELSE IF HasProfileCompany(users, u)
         THEN {users[u].company} \cap DOMAIN companies
    ELSE {}

\* CompanyForm(request.POST, instance=company).is_valid(): a name is
\* required and Company.name is unique.
CompanyFormValid(pk, post) ==
    /\ post.name # ""
    /\ \A c \in DOMAIN companies \ {pk} : companies[c].name # post.name

\* DepartmentForm.is_valid() without the unique_together validation.
DepartmentFormValidNoUnique(u, pk, post) ==
    /\ post.name # ""
    /\ post.company \in CompanyQueryset(u)

\* DepartmentForm(request.POST, instance=department, user=u).is_valid(): name
\* and company are required, the company is one of the queryset, and
\* (name, company) is unique together.
DepartmentFormValid(u, pk, post) ==
    /\ post.name # ""
    /\ post.company \in CompanyQueryset(u)
    /\ \A d \in DOMAIN departments \ {pk} :
          ~(departments[d].name = post.name
            /\ departments[d].company = post.company)

\* The queryset of conducted_by when a saved session is edited (forms.py
\* 116-126): the non-staff accounts of the session's company.
ConductedByQueryset(company_context) ==
    {a \in DOMAIN users : /\ users[a].profile
                          /\ users[a].company = company_context
                          /\ ~users[a].is_staff}

\* SessionTopicForm(request.POST, instance=session, user=u).is_valid()
SessionFormValid(u, session, post) ==
    /\ post.topic # ""
    /\ post.conducted_by \in ConductedByQueryset(session.company)
    /\ post.company \in CompanyQueryset(u)
    /\ post.status \in STATUSES
    /\ post.place \in PLACE_CHOICES

\* User.objects.filter(userprofile__company=company, is_staff=False)
CompanyUsers(company) ==
    Given(InIdOrder({a \in DOMAIN users : /\ users[a].profile
                                          /\ users[a].company = company
                                          /\ ~users[a].is_staff}))

\* company_edit_view(request, pk), views.py 597-619. After a valid POST of a
\* non-staff admin the company is saved and logged, then line 616 calls
\* reverse, a name views.py does not define.
company_edit_view(u, method, pk, post) ==
    /\ UNCHANGED <<users, departments, sessions, learnings, client>>
    /\ LET before == IF pk \in DOMAIN companies THEN companies[pk] ELSE NoRow
           answer(r) == call' = Request("company_edit_view", u, method, pk,
                                        post, before, r)
       IN IF ~is_authenticated(u)
          THEN answer(Redirect("login")) /\ UNCHANGED <<companies, activities>>
          ELSE IF pk \notin DOMAIN companies
          THEN answer(NotFound) /\ UNCHANGED <<companies, activities>>
          ELSE IF ~(is_super_admin(users, u) \/ is_company_admin(users, u, pk))
          THEN /\ answer(Redirect(IF is_super_admin(users, u)
                                  THEN "company_list" ELSE "dashboard"))
               /\ UNCHANGED <<companies, activities>>
          ELSE IF method = "POST" /\ CompanyFormValid(pk, post)
          THEN /\ companies' = [companies EXCEPT ![pk].name = post.name]
               /\ activities' = activities \o
                     log_activity(users, u, "Updated company", Omitted,
                                  NoUser, pk).rows
               /\ answer(IF is_super_admin(users, u)
                         THEN Redirect("company_list")
                         ELSE IF NameDefined("reverse")
                              THEN Redirect("company_detail")
                              ELSE ServerError("NameError"))
          ELSE /\ answer(Render("company_form.html"))
               /\ UNCHANGED <<companies, activities>>

\* company_detail_view(request, pk), views.py 590-595: login_required, then
\* user_passes_test(is_admin), which sends an account that is not staff to
\* the login page.
company_detail_view(u, pk) ==
    /\ UNCHANGED <<users, entities, activities, client>>
    /\ LET before == IF pk \in DOMAIN companies THEN companies[pk] ELSE NoRow
           answer(r) == call' = Request("company_detail_view", u, "GET", pk,
                                        NoPost, before, r)
       IN IF ~is_authenticated(u) THEN answer(Redirect("login"))
          ELSE IF ~is_staff(users, u) THEN answer(Redirect("login"))
          ELSE IF pk \notin DOMAIN companies THEN answer(NotFound)
          ELSE answer(Render("company_detail.html"))

\* department_edit(request, pk), views.py 890-912
department_edit(u, method, pk, post) ==
    /\ UNCHANGED <<users, companies, sessions, learnings, client>>
    /\ LET before == IF pk \in DOMAIN departments THEN departments[pk]
                     ELSE NoRow
           answer(r) == call' = Request("department_edit", u, method, pk,
                                        post, before, r)
       IN IF ~is_authenticated(u)
          THEN answer(Redirect("login"))
               /\ UNCHANGED <<departments, activities>>
          ELSE IF pk \notin DOMAIN departments
          THEN answer(NotFound) /\ UNCHANGED <<departments, activities>>
          ELSE IF ~(is_super_admin(users, u)
                    \/ is_company_admin(users, u, departments[pk].company))
          THEN /\ answer(Redirect("department-list"))
               /\ UNCHANGED <<departments, activities>>
          ELSE IF method = "POST" /\ DepartmentFormValid(u, pk, post)
          THEN /\ departments' = [departments EXCEPT ![pk] = post]
               /\ activities' = activities \o
                     log_activity(users, u, "Edited department", Omitted,
                                  NoUser, post.company).rows
               /\ answer(Redirect("department-list"))
          ELSE /\ answer(Render("department_form.html"))
               /\ UNCHANGED <<departments, activities>>

\* The permission check of edit_session_view, views.py 473-481: "yes", "no",
\* or the exception raised. The third test names is_employee, which views.py
\* does not import (line 42).
CanEditSession(u, session) ==
    IF is_super_admin(users, u) THEN "yes"
    ELSE IF is_company_admin(users, u, session.company)
            \/ is_manager(users, u, session.company)
    THEN "yes"
    ELSE IF ~NameDefined("is_employee") THEN "NameError"
    ELSE IF is_employee(users, u, session.company) /\ session.conducted_by = u
    THEN "yes"
    ELSE "no"

\* edit_session_view(request, session_id), views.py 459-514. form.save(
\* commit=False) returns the instance the form was given, so updated_session
\* and session are one object and the test of line 493 compares the posted
\* company with itself.
edit_session_view(u, method, pk, post) ==
    /\ UNCHANGED <<users, companies, departments, learnings, client>>
    /\ LET before == IF pk \in DOMAIN sessions THEN sessions[pk] ELSE NoRow
           answer(r) == call' = Request("edit_session_view", u, method, pk,
                                        post, before, r)
           same == UNCHANGED <<sessions, activities>>
       IN IF ~is_authenticated(u)
          THEN answer(Redirect("login")) /\ same
          ELSE IF pk \notin DOMAIN sessions
          THEN answer(NotFound) /\ same
          ELSE IF CanEditSession(u, before) = "NameError"
          THEN answer(ServerError("NameError")) /\ same
          ELSE IF CanEditSession(u, before) = "no"
          THEN answer(Redirect("session_list")) /\ same
          ELSE IF method = "POST" /\ SessionFormValid(u, before, post)
          THEN LET updated_session == post
                   session == updated_session
               IN IF ~is_super_admin(users, u)
                     /\ updated_session.company # session.company
                  THEN answer(Render("edit_session.html")) /\ same
                  ELSE IF users[updated_session.conducted_by].company
                          # updated_session.company
                  THEN answer(Render("edit_session.html")) /\ same
                  ELSE /\ sessions' = [sessions EXCEPT ![pk] = updated_session]
                       /\ activities' = activities \o
                            (IF is_super_admin(users, u)
                             THEN log_activity(users, u, "Admin Updated session",
                                     CompanyUsers(updated_session.company),
                                     NoUser, updated_session.company)
                             ELSE log_activity(users, u, "Updated session",
                                     Omitted, NoUser,
                                     updated_session.company)).rows
                       /\ answer(Redirect("session_list"))
          ELSE answer(Render("edit_session.html")) /\ same

\* A request to edit_session_view that has not arrived yet.
Idle == [op |-> "edit_session_view", stage |-> "idle", turn |-> 0]

\* The number of requests that have saved.
Saves == Cardinality({q \in DOMAIN call : call[q].turn > 0})

\* A request record with the position of its process: "validated" between
\* form.save(commit=False) and updated_session.save(), "done" once answered;
\* turn is the place of its save among the saves, 0 when it has not saved.
Staged(request, stage, turn) ==
    [op |-> request.op, user |-> request.user, method |-> request.method,
     pk |-> request.pk, post |-> request.post, before |-> request.before,
     response |-> request.response, stage |-> stage, turn |-> turn]

\* edit_session_view, views.py 470-500, run by process p: the session is
\* loaded, the permission checked and the bound form validated against the
\* rows as they are now; the instance with the posted values is held for the
\* save.
edit_session_view_validate(p, u, pk, post) ==
    /\ call[p].stage = "idle"
    /\ pk \in DOMAIN sessions
    /\ UNCHANGED <<users, entities, activities, client>>
    /\ LET before == sessions[pk]
           answer(stage, r) ==
               call' = [call EXCEPT ![p] =
                           Staged(Request("edit_session_view", u, "POST", pk,
                                          post, before, r), stage, 0)]
       IN IF ~is_authenticated(u) THEN answer("done", Redirect("login"))
          ELSE IF CanEditSession(u, before) = "NameError"
          THEN answer("done", ServerError("NameError"))
          ELSE IF CanEditSession(u, before) = "no"
          THEN answer("done", Redirect("session_list"))
          ELSE IF ~SessionFormValid(u, before, post)
          THEN answer("done", Render("edit_session.html"))
          ELSE IF users[post.conducted_by].company # post.company
          THEN answer("done", Render("edit_session.html"))
          ELSE answer("validated", NoRow)

\* The save of process p writing only the fields its form changed.
edit_session_view_save_changed_fields(p) ==
    /\ call[p].stage = "validated"
    /\ UNCHANGED <<users, companies, departments, learnings, client>>
    /\ LET updated_session == call[p].post
           u == call[p].user
           changed(field) == call[p].post[field] # call[p].before[field]
       IN /\ sessions' =
                 [sessions EXCEPT ![call[p].pk] =
                     [field \in DOMAIN updated_session |->
                         IF changed(field) THEN updated_session[field]
                         ELSE sessions[call[p].pk][field]]]
          /\ activities' = activities \o
                (IF is_super_admin(users, u)
                 THEN log_activity(users, u, "Admin Updated session",
                         CompanyUsers(updated_session.company),
                         NoUser, updated_session.company)
                 ELSE log_activity(users, u, "Updated session",
                         Omitted, NoUser, updated_session.company)).rows
          /\ call' = [call EXCEPT ![p] =
                         [@ EXCEPT !.stage = "done", !.turn = Saves + 1,
                                   !.response = Redirect("session_list")]]

\* edit_session_view, views.py 501-509, run by process p: Model.save() with
\* no update_fields writes every column of the held instance over the row,
\* whatever was stored since the instance was loaded; then the activity is
\* logged and the request answered.
edit_session_view_save(p) ==
    /\ call[p].stage = "validated"
    /\ UNCHANGED <<users, companies, departments, learnings, client>>
    /\ LET updated_session == call[p].post
           u == call[p].user
       IN /\ sessions' = [sessions EXCEPT ![call[p].pk] = updated_session]
          /\ activities' = activities \o
                (IF is_super_admin(users, u)
                 THEN log_activity(users, u, "Admin Updated session",
                         CompanyUsers(updated_session.company),
                         NoUser, updated_session.company)
                 ELSE log_activity(users, u, "Updated session",
                         Omitted, NoUser, updated_session.company)).rows
          /\ call' = [call EXCEPT ![p] =
                         [@ EXCEPT !.stage = "done", !.turn = Saves + 1,
                                   !.response = Redirect("session_list")]]

\* The permission check of delete_session_view, views.py 533-541; its third
\* test names is_employee as well (line 540).
CanDeleteSession(u, session) ==
    IF is_super_admin(users, u) THEN "yes"
    ELSE IF is_company_admin(users, u, session.company)
            \/ is_manager(users, u, session.company)
    THEN "yes"
    ELSE IF ~NameDefined("is_employee") THEN "NameError"
    ELSE IF is_employee(users, u, session.company) /\ session.conducted_by = u
    THEN "yes"
    ELSE "no"

\* User.objects.filter(is_staff=True, userprofile__company=session_company)
\* with the acting user appended when absent, as list(set(current_targets))
\* (views.py 554-559), in id order.
DeleteTargets(u, session_company) ==
    Given(InIdOrder({a \in DOMAIN users : /\ users[a].is_staff
                                          /\ users[a].profile
                                          /\ users[a].company = session_company}
                    \cup {u}))

\* A table without the rows of the primary keys in pks.
Without(table, pks) == [pk \in DOMAIN table \ pks |-> table[pk]]

\* delete_session_view(request, session_id), views.py 517-564: any method
\* deletes; the activity is logged before the row is deleted.
delete_session_view(u, pk) ==
    /\ UNCHANGED <<users, companies, departments, learnings, client>>
    /\ LET before == IF pk \in DOMAIN sessions THEN sessions[pk] ELSE NoRow
           answer(r) == call' = Request("delete_session_view", u, "POST", pk,
                                        NoPost, before, r)
           same == UNCHANGED <<sessions, activities>>
       IN IF ~is_authenticated(u)
          THEN answer(Redirect("login")) /\ same
          ELSE IF pk \notin DOMAIN sessions
          THEN answer(NotFound) /\ same
          ELSE IF CanDeleteSession(u, before) = "NameError"
          THEN answer(ServerError("NameError")) /\ same
          ELSE IF CanDeleteSession(u, before) = "no"
          THEN answer(Redirect("session_list")) /\ same
          ELSE /\ activities' = activities \o
                    (IF is_super_admin(users, u)
                     THEN log_activity(users, u, "Admin Deleted session",
                                       CompanyUsers(before.company), NoUser,
                                       before.company)
                     ELSE log_activity(users, u, "Deleted session",
                                       DeleteTargets(u, before.company),
                                       NoUser, before.company)).rows
               /\ sessions' = Without(sessions, {pk})
               /\ answer(Redirect("session_list"))

(***************************************************************************)
(* management/views.py: add_user, edit_user, my_profile and                *)
(* company_delete_view, with UserCreationForm and UserEditForm of          *)
(* management/forms.py. A posted form carries the username, the company    *)
(* and the role; its other fields are taken as valid.                      *)
(***************************************************************************)
\* request_user is a Company Admin for UserCreationForm.__init__ (forms.py
\* 190): not staff, with a profile of role ADMIN.
CreatesAsCompanyAdmin(u) ==
    u # NoUser /\ ~users[u].is_staff /\ users[u].profile
    /\ users[u].role = "ADMIN"

\* The queryset of the company field of UserCreationForm (forms.py 190-210).
CreationCompanyQueryset(u) ==
    IF CreatesAsCompanyAdmin(u)
    THEN IF users[u].company # NoCompany THEN {users[u].company} ELSE {}
    ELSE IF is_staff(users, u) THEN DOMAIN companies
    ELSE {}

\* The choices of the role field of UserCreationForm (forms.py 190-210).
CreationRoleChoices(u) ==
    IF CreatesAsCompanyAdmin(u)
    THEN IF users[u].company # NoCompany THEN Roles \ {"ADMIN"} ELSE {}
    ELSE IF is_staff(users, u) THEN Roles
    ELSE {}

\* UserCreationForm(request.POST, request_user=u).is_valid(): the username is
\* required and unique, the company is required and one of the queryset, the
\* role is required and one of the choices.
UserCreationFormValid(u, post) ==
    /\ post.username # ""
    /\ \A a \in DOMAIN users : Username(a) # post.username
    /\ post.company \in CreationCompanyQueryset(u)
    /\ post.role \in CreationRoleChoices(u)

\* The account add_user stores (views.py 232-234): form.save(commit=False)
\* skips the UserProfile.objects.update_or_create of forms.py 223-233 and
\* user.save() writes the auth User row alone.
CreatedUser(post) == NoProfile(FALSE)

\* The form handling of add_user, views.py 229-247. The activity is logged
\* after the account is saved, with company_obj None since the new account
\* has no profile (line 236).
AddUserForm(u, method, post) ==
    /\ UNCHANGED <<entities, client>>
    /\ LET new == Len(users) + 1
           answer(pk, r) == call' = Request("add_user", u, method, pk, post,
                                            NoRow, r)
       IN IF method = "POST" /\ UserCreationFormValid(u, post)
          THEN /\ users' = Append(users, CreatedUser(post))
               /\ activities' = activities \o
                     log_activity(users', u, "Admin added new user",
                                  Given(<<new>>), NoUser, NoCompany).rows
               /\ answer(new, Redirect("dashboard"))
          ELSE /\ answer(MissingPk, Render("add_user.html"))
               /\ UNCHANGED <<users, activities>>

\* add_user without the permission check of lines 224-227.
add_user_no_check(u, method, post) ==
    IF ~is_authenticated(u)
    THEN /\ call' = Request("add_user", u, method, MissingPk, post, NoRow,
                            Redirect("login"))
         /\ UNCHANGED <<users, entities, activities, client>>
    ELSE AddUserForm(u, method, post)

\* add_user(request), views.py 214-247
add_user(u, method, post) ==
    IF ~is_authenticated(u)
    THEN /\ call' = Request("add_user", u, method, MissingPk, post, NoRow,
                            Redirect("login"))
         /\ UNCHANGED <<users, entities, activities, client>>
    ELSE IF ~(is_super_admin(users, u)
              \/ (users[u].profile /\ users[u].role = "ADMIN"))
    THEN /\ call' = Request("add_user", u, method, MissingPk, post, NoRow,
                            Redirect("dashboard"))
         /\ UNCHANGED <<users, entities, activities, client>>
    ELSE AddUserForm(u, method, post)

\* edited_user_profile.company of UserEditForm.__init__ (forms.py 264-267).
CurrentCompany(t) == IF users[t].profile THEN users[t].company ELSE NoCompany

\* The branch of the field permissions UserEditForm.__init__ takes for the
\* edited account t and request_user u (forms.py 293-323).
EditBranch(u, t) ==
    IF users[t].is_staff THEN "staff_instance"
    ELSE IF is_staff(users, u) THEN "super_admin"
    ELSE IF /\ users[u].profile /\ users[u].role = "ADMIN"
            /\ CurrentCompany(t) # NoCompany
            /\ users[u].company = CurrentCompany(t)
    THEN "company_admin"
    ELSE IF u = t THEN "self"
    ELSE "none"

\* The queryset of the company field of UserEditForm (forms.py 272-276, 301).
EditCompanyQueryset(u, t) ==
    IF EditBranch(u, t) = "super_admin" \/ CurrentCompany(t) = NoCompany
    THEN DOMAIN companies
    ELSE {CurrentCompany(t)}

\* The choices of the role field of UserEditForm with line 312 left out.
EditRoleChoicesWithAdmin(u, t) == Roles

\* The choices of the role field of UserEditForm (forms.py 288, 310-312).
EditRoleChoices(u, t) ==
    IF EditBranch(u, t) = "company_admin" /\ users[t].role # "ADMIN"
    THEN Roles \ {"ADMIN"}
    ELSE Roles

\* The role widget keeps its disabled attribute (forms.py 289-320).
RoleDisabled(u, t) ==
    ~(\/ EditBranch(u, t) = "super_admin"
      \/ EditBranch(u, t) = "company_admin" /\ users[t].role # "ADMIN")

\* The queryset of the department field of UserEditForm (forms.py 278-282):
\* the departments of the edited account's current company, every
\* department when it has none.
EditDepartmentQueryset(t) ==
    IF CurrentCompany(t) # NoCompany
    THEN {d \in DOMAIN departments :
             departments[d].company = CurrentCompany(t)}
    ELSE DOMAIN departments

\* The department widget has the disabled attribute (forms.py 293-296; the
\* test of line 322 is reached for no staff instance).
DepartmentDisabled(u, t) == users[t].is_staff

\* UserEditForm(request.POST, instance=t, request_user=u).is_valid(): the
\* role is required and one of the choices, whether or not its widget is
\* disabled; the company and the department are optional and one of their
\* querysets.
UserEditFormValid(u, t, post) ==
    /\ post.role \in EditRoleChoices(u, t)
    /\ post.company = NoCompany \/ post.company \in EditCompanyQueryset(u, t)
    /\ \/ post.department = NoDepartment
       \/ post.department \in EditDepartmentQueryset(t)

\* The row of t after UserEditForm.save (forms.py 331-357): the profile is
\* fetched or created; a staff request_user sets the posted company, which
\* clears the department when the company changes; the posted department,
\* validated against the departments of the company the account had, is
\* stored unless its widget is disabled, and so is the posted role.
EditedUser(u, t, post) ==
    LET company == IF is_staff(users, u) THEN post.company
                   ELSE CurrentCompany(t)
        department ==
            IF DepartmentDisabled(u, t)
            THEN IF company # CurrentCompany(t) THEN NoDepartment
                 ELSE users[t].department
            ELSE post.department
    IN [is_staff |-> users[t].is_staff,
        profile |-> TRUE,
        company |-> company,
        role |-> IF RoleDisabled(u, t) THEN users[t].role ELSE post.role,
        department |-> department]

\* The rows as the view's objects hold them after form.save(): the edited
\* account's profile was cached when the form was built, so the object
\* keeps the old values; a profile the save created is the saved one.
Cached(after, t) ==
    [after EXCEPT ![t] = IF users[t].profile THEN users[t] ELSE after[t]]

\* The permission check of edit_user, views.py 267-275.
CanEditUser(u, t) ==
    IF is_super_admin(users, u) THEN ~users[t].is_staff \/ t = u
    ELSE /\ users[u].profile /\ users[u].role = "ADMIN"
         /\ users[t].profile
         /\ users[t].company = users[u].company
         /\ ~users[t].is_staff
         /\ users[t].role # "ADMIN"

\* edit_user(request, user_id), views.py 250-293
edit_user(u, method, user_id, post) ==
    /\ UNCHANGED <<entities, client>>
    /\ LET before == IF user_id \in DOMAIN users THEN users[user_id]
                     ELSE NoRow
           answer(r) == call' = Request("edit_user", u, method, user_id,
                                        post, before, r)
           same == UNCHANGED <<users, activities>>
       IN IF ~is_authenticated(u)
          THEN answer(Redirect("login")) /\ same
          ELSE IF user_id \notin DOMAIN users
          THEN answer(NotFound) /\ same
          ELSE IF ~CanEditUser(u, user_id)
          THEN /\ answer(Redirect(IF is_super_admin(users, u)
                                  THEN "user_list" ELSE "dashboard"))
               /\ same
          ELSE IF method = "POST" /\ UserEditFormValid(u, user_id, post)
          THEN /\ users' = [users EXCEPT
                              ![user_id] = EditedUser(u, user_id, post)]
               /\ activities' = activities \o
                     log_activity(Cached(users', user_id), u,
                                  "Admin edited your profile.", Omitted,
                                  user_id,
                                  Cached(users', user_id)[user_id].company).rows
               /\ answer(Redirect("user_list"))
          ELSE answer(Render("edit_user.html")) /\ same

\* my_profile(request), views.py 341-363
my_profile(u, method, post) ==
    /\ UNCHANGED <<entities, client>>
    /\ LET before == IF u # NoUser THEN users[u] ELSE NoRow
           answer(r) == call' = Request("my_profile", u, method, u, post,
                                        before, r)
           same == UNCHANGED <<users, activities>>
       IN IF ~is_authenticated(u)
          THEN answer(Redirect("login")) /\ same
          ELSE IF method = "POST" /\ UserEditFormValid(u, u, post)
          THEN /\ users' = [users EXCEPT ![u] = EditedUser(u, u, post)]
               /\ activities' = activities \o
                     log_activity(Cached(users', u), u,
                                  "Updated their profile.", Omitted, NoUser,
                                  Cached(users', u)[u].company).rows
               /\ answer(Redirect("my_profile"))
          ELSE answer(Render("my_profile.html")) /\ same

\* The rows of a table that do not belong to company pk (the others are
\* deleted with the company, on_delete=CASCADE).
NotOf(table, pk) ==
    Without(table, {k \in DOMAIN table : table[k].company = pk})

\* company_delete_view deleting on any method, as delete_session_view does.
company_delete_view_any_method(u, method, pk) ==
    /\ UNCHANGED client
    /\ LET before == IF pk \in DOMAIN companies THEN companies[pk] ELSE NoRow
           answer(r) == call' = Request("company_delete_view", u, method, pk,
                                        NoPost, before, r)
           same == UNCHANGED <<users, entities, activities>>
       IN IF ~is_authenticated(u) \/ ~is_staff(users, u)
          THEN answer(Redirect("login")) /\ same
          ELSE IF pk \notin DOMAIN companies
          THEN answer(NotFound) /\ same
          ELSE IF method \in Methods
          THEN /\ activities' = SelectSeq(
                     activities \o log_activity(users, u, "Deleted company",
                                                Omitted, NoUser, pk).rows,
                     LAMBDA row : row.company # pk)
               /\ companies' = Without(companies, {pk})
               /\ departments' = NotOf(departments, pk)
               /\ sessions' = NotOf(sessions, pk)
               /\ learnings' = NotOf(learnings, pk)
               /\ users' =
                     [a \in DOMAIN users |->
                        [users[a] EXCEPT
                           !.company = IF @ = pk THEN NoCompany ELSE @,
                           !.department =
                              IF @ # NoDepartment
                                 /\ departments[@].company = pk
                              THEN NoDepartment ELSE @]]
               /\ answer(Redirect("company_list"))
          ELSE answer(Render("company_confirm_delete.html")) /\ same

\* company_delete_view(request, pk), views.py 621-634: login_required and
\* user_passes_test(is_admin). The activity is logged with the company, then
\* company.delete() cascades to the departments, sessions, external topics
\* and activities of the company and sets the company of its profiles, and
\* their department when it is deleted, to null (models.py 78-79).
company_delete_view(u, method, pk) ==
    /\ UNCHANGED client
    /\ LET before == IF pk \in DOMAIN companies THEN companies[pk] ELSE NoRow
           answer(r) == call' = Request("company_delete_view", u, method, pk,
                                        NoPost, before, r)
           same == UNCHANGED <<users, entities, activities>>
       IN IF ~is_authenticated(u) \/ ~is_staff(users, u)
          THEN answer(Redirect("login")) /\ same
          ELSE IF pk \notin DOMAIN companies
          THEN answer(NotFound) /\ same
          ELSE IF method = "POST"
          THEN /\ activities' = SelectSeq(
                     activities \o log_activity(users, u, "Deleted company",
                                                Omitted, NoUser, pk).rows,
                     LAMBDA row : row.company # pk)
               /\ companies' = Without(companies, {pk})
               /\ departments' = NotOf(departments, pk)
               /\ sessions' = NotOf(sessions, pk)
               /\ learnings' = NotOf(learnings, pk)
               /\ users' =
                     [a \in DOMAIN users |->
                        [users[a] EXCEPT
                           !.company = IF @ = pk THEN NoCompany ELSE @,
                           !.department =
                              IF @ # NoDepartment
                                 /\ departments[@].company = pk
                              THEN NoDepartment ELSE @]]
               /\ answer(Redirect("company_list"))
          ELSE answer(Render("company_confirm_delete.html")) /\ same

(***************************************************************************)
(* management/views.py: delete_user                                        *)
(***************************************************************************)
\* The permission check of delete_user, views.py 312-320. The companies of
\* the two profiles are compared with ==, which also holds when both are
\* None.
CanDeleteUser(u, t) ==
    IF is_super_admin(users, u) THEN ~users[t].is_staff
    ELSE /\ users[u].profile
         /\ users[u].role = "ADMIN"
         /\ users[t].profile
         /\ users[t].company = users[u].company
         /\ ~users[t].is_staff
         /\ users[t].role # "ADMIN"

\* delete_user(request, user_id), views.py 294-338: any method deletes.
\* user_to_delete.delete() cascades to the profile, the sessions the account
\* conducts (models.py 107) and its activities (models.py 168); the activity
\* is logged after the deletion.
delete_user(u, pk) ==
    /\ UNCHANGED <<companies, departments, learnings, client>>
    /\ LET before == IF pk \in DOMAIN users THEN users[pk] ELSE NoRow
           answer(r) == call' = Request("delete_user", u, "POST", pk, NoPost,
                                        before, r)
           same == UNCHANGED <<users, sessions, activities>>
           remaining == Without(users, {pk})
       IN IF ~is_authenticated(u)
          THEN answer(Redirect("login")) /\ same
          ELSE IF pk \notin DOMAIN users
          THEN answer(NotFound) /\ same
          ELSE IF ~CanDeleteUser(u, pk)
          THEN /\ answer(Redirect(IF is_super_admin(users, u)
                                  THEN "user_list" ELSE "dashboard"))
               /\ same
          ELSE /\ users' = remaining
               /\ sessions' =
                     Without(sessions, {k \in DOMAIN sessions :
                                           sessions[k].conducted_by = pk})
               /\ activities' =
                     SelectSeq(activities, LAMBDA row : row.user # pk)
                     \o log_activity(remaining, u, "Deleted user", Omitted,
                                     NoUser, before.company).rows
               /\ answer(Redirect("user_list"))

(***************************************************************************)
(* management/views.py: home, user_login and user_logout. The requester is *)
(* the account the client's session is logged in as.                       *)
(***************************************************************************)
\* home(request), views.py 100-168: the view carries no login_required; for
\* AnonymousUser hasattr(user, 'userprofile') and user.is_staff are False and
\* the last branch (lines 147-150) renders the page.
home ==
    /\ call' = Request("home", client, "GET", MissingPk, NoPost, NoRow,
                       Render("home.html"))
    /\ UNCHANGED <<users, entities, activities, client>>

\* user_logout(request), views.py 195-206
user_logout ==
    /\ activities' = activities \o
          (IF is_authenticated(client)
           THEN log_activity(users, client, "Logged out.", Omitted, NoUser,
                             CurrentCompany(client)).rows
           ELSE <<>>)
    /\ client' = NoUser
    /\ call' = Request("user_logout", client, "GET", MissingPk, NoPost, NoRow,
                       Redirect("login"))
    /\ UNCHANGED <<users, entities>>

\* user_login(request), views.py 171-192; account is the account the posted
\* credentials authenticate, NoUser when they authenticate none.
user_login(method, account) ==
    /\ UNCHANGED <<users, entities>>
    /\ IF method = "POST" /\ account # NoUser
       THEN /\ client' = account
            /\ activities' = activities \o
                  log_activity(users, account, "Logged in successfully.",
                               Omitted, NoUser, CurrentCompany(account)).rows
            /\ call' = Request("user_login", client, method, account, NoPost,
                               NoRow, Redirect("dashboard"))
       ELSE /\ call' = Request("user_login", client, method, account, NoPost,
                               NoRow, Render("login.html"))
            /\ UNCHANGED <<activities, client>>

(***************************************************************************)
(* management/views.py: department_create                                  *)
(***************************************************************************)
\* The primary key department.save() gives a new row: larger than every key
\* of the table.
NewPk(table) ==
    IF DOMAIN table = {} THEN 1
    ELSE 1 + CHOOSE k \in DOMAIN table : \A j \in DOMAIN table : j <= k

\* The table after the INSERT of row.
Inserted(table, row) ==
    [pk \in DOMAIN table \cup {NewPk(table)} |->
        IF pk \in DOMAIN table THEN table[pk] ELSE row]

\* department_create(request), views.py 854-887. A valid form has a company
\* (the field is required), so lines 866-875 change nothing.
department_create(u, method, post) ==
    /\ UNCHANGED <<users, companies, sessions, learnings, client>>
    /\ LET new == NewPk(departments)
           answer(pk, r) == call' = Request("department_create", u, method,
                                            pk, post, NoRow, r)
           same == UNCHANGED <<departments, activities>>
       IN IF ~is_authenticated(u)
          THEN answer(MissingPk, Redirect("login")) /\ same
          ELSE IF ~(is_super_admin(users, u)
                    \/ (users[u].profile /\ users[u].role = "ADMIN"))
          THEN answer(MissingPk, Redirect("dashboard")) /\ same
          ELSE IF method = "POST" /\ DepartmentFormValid(u, MissingPk, post)
          THEN /\ departments' = Inserted(departments, post)
               /\ activities' = activities \o
                     log_activity(users, u, "Created new department",
                                  Omitted, NoUser, post.company).rows
               /\ answer(new, Redirect("department-list"))
          ELSE answer(MissingPk, Render("department_form.html")) /\ same

(***************************************************************************)
(* management/views.py: recent_activities.                                 *)
(***************************************************************************)
\* recent_activities marking every unread row, whoever its recipient is.
recent_activities_all_rows(u) ==
    /\ UNCHANGED <<users, entities, client>>
    /\ IF ~is_authenticated(u)
       THEN /\ call' = Request("recent_activities", u, "GET", MissingPk,
                               NoPost, NoRow, Redirect("login"))
            /\ UNCHANGED activities
       ELSE /\ activities' = [i \in DOMAIN activities |->
                                 [activities[i] EXCEPT !.read = TRUE]]
            /\ call' = Request("recent_activities", u, "GET", MissingPk,
                               NoPost, NoRow, Render("recent_activities.html"))

\* recent_activities(request), views.py 822-837: login_required; line 830
\* sets read on the unread rows whose user is the requester, the rest of the
\* view only reads.
recent_activities(u) ==
    /\ UNCHANGED <<users, entities, client>>
    /\ IF ~is_authenticated(u)
       THEN /\ call' = Request("recent_activities", u, "GET", MissingPk,
                               NoPost, NoRow, Redirect("login"))
            /\ UNCHANGED activities
       ELSE /\ activities' = [i \in DOMAIN activities |->
                                 IF activities[i].user = u
                                    /\ ~activities[i].read
                                 THEN [activities[i] EXCEPT !.read = TRUE]
                                 ELSE activities[i]]
            /\ call' = Request("recent_activities", u, "GET", MissingPk,
                               NoPost, NoRow, Render("recent_activities.html"))

(***************************************************************************)
(* management/views.py: all_sessions_view, learning_view, department_list. *)
(* A list is the queryset of the view as the table of its rows; order_by   *)
(* and the paginator arrange and cut the queryset and add no row to it.    *)
(***************************************************************************)
\* The queryset with no company filter for any account.
ListedUnfiltered(db, table, u) == table

\* The queryset the three views build (views.py 433-448, 706-718, 843-849):
\* every row for a staff account, the rows of the profile's company for an
\* account that has one, no row otherwise.
Listed(db, table, u) ==
    IF db[u].is_staff THEN table
    ELSE IF db[u].profile /\ db[u].company # NoCompany
    THEN [k \in {j \in DOMAIN table : table[j].company = db[u].company}
             |-> table[k]]
    ELSE <<>>

\* The response that shows a list.
Listing(template, rows) == [kind |-> "render", to |-> template, rows |-> rows]

\* A list view (all three are login_required) answering with template the
\* rows of table.
ListView(op, template, table, u) ==
    /\ UNCHANGED <<users, entities, activities, client>>
    /\ call' = Request(op, u, "GET", MissingPk, NoPost, NoRow,
                       IF ~is_authenticated(u) THEN Redirect("login")
                       ELSE Listing(template, Listed(users, table, u)))

\* all_sessions_view(request), views.py 421-453
all_sessions_view(u) ==
    ListView("all_sessions_view", "all_sessions.html", sessions, u)

\* learning_view(request), views.py 696-722
learning_view(u) ==
    ListView("learning_view", "learning-topic-list.html", learnings, u)

\* department_list(request), views.py 840-851
department_list(u) ==
    ListView("department_list", "department_list.html", departments, u)

(***************************************************************************)
(* management/views.py: upload_sessions_excel and export_sessions. A sheet *)
(* is its header row and its data rows; a text cell that the code splits   *)
(* is the sequence of its words, a date cell the separator and the numbers *)
(* written in it.                                                          *)
(***************************************************************************)
\* The value stored for an empty cancelled reason (cancelled_reason or None).
None == "None"

\* expected_headers, views.py 1019-1027
expected_headers ==
    <<"No.", "Topic", "Date", "Status", "Assigned To", "Place",
      "Cancelled Reason">>

\* The columns of the DataFrame export_sessions builds (views.py 947-962):
\* the keys of the row dictionaries in the order they are written.
export_columns ==
    <<"No.", "Date", "Topic", "Status", "Assigned To", "Place">>

DaysIn(y, m) ==
    IF m \in {4, 6, 9, 11} THEN 30
    ELSE IF m # 2 THEN 31
    ELSE IF (y % 4 = 0 /\ y % 100 # 0) \/ y % 400 = 0 THEN 29
    ELSE 28

\* datetime.strptime(date_str, "%Y/%m/%d") raises ValueError or TypeError
\* (views.py 1051-1058) unless the text is year/month/day of a calendar date.
DateParses(cell) ==
    /\ cell.sep = "/"
    /\ cell.ymd[2] \in 1..12
    /\ cell.ymd[3] \in 1..DaysIn(cell.ymd[1], cell.ymd[2])

\* .date() of the parsed value.
ParsedDate(cell) == cell.ymd

\* " ".join(words)
RECURSIVE Joined(_)
Joined(words) ==
    IF Len(words) = 1 THEN words[1]
    ELSE words[1] \o " " \o Joined(Tail(words))

\* The accounts User.objects.get(first_name=..., last_name=...) looks among
\* after assigned_to.split(" ", 1) gave two parts (views.py 1061-1065).
NameMatches(db, words) ==
    {a \in DOMAIN db : /\ db[a].first_name = words[1]
                       /\ db[a].last_name = Joined(Tail(words))}

\* The rows of table that get_or_create(topic=..., conducted_by=...) finds.
PairMatches(table, topic, user) ==
    {k \in DOMAIN table : /\ table[k].topic = topic
                          /\ table[k].conducted_by = user}

\* The loop of views.py 1037-1117 from row i on: the table when the loop ends
\* and the exception that ended it, if any. User.objects.get raises
\* MultipleObjectsReturned, which the except clause of line 1066 does not
\* name; get_or_create raises it too for two matching rows, and IntegrityError
\* when it creates, because its defaults give the new row no company
\* (models.py 108).
RECURSIVE ImportLoop(_, _, _, _)
ImportLoop(db, table, rows, i) ==
    IF i > Len(rows) THEN [sessions |-> table, raised |-> "nothing"]
    ELSE LET row == rows[i]
             next == ImportLoop(db, table, rows, i + 1)
             found == NameMatches(db, row.assigned_to)
             user == CHOOSE a \in found : TRUE
             existing == PairMatches(table, row.topic, user)
             k == CHOOSE e \in existing : TRUE
             updated ==
                 [table EXCEPT ![k] =
                     [@ EXCEPT !.date = ParsedDate(row.date_str),
                               !.status = row.status,
                               !.place = row.place,
                               !.cancelled_reason =
                                   IF row.cancelled_reason = "" THEN None
                                   ELSE row.cancelled_reason]]
         IN IF row.topic = "" \/ row.assigned_to = <<>> THEN next
            ELSE IF ~DateParses(row.date_str) THEN next
            ELSE IF Len(row.assigned_to) < 2 THEN next
            ELSE IF found = {} THEN next
            ELSE IF Cardinality(found) > 1
            THEN [sessions |-> table, raised |-> "MultipleObjectsReturned"]
            ELSE IF row.status \notin STATUSES THEN next
            ELSE IF row.place \notin PLACE_CHOICES THEN next
            ELSE IF existing = {}
            THEN [sessions |-> table, raised |-> "IntegrityError"]
            ELSE IF Cardinality(existing) > 1
            THEN [sessions |-> table, raised |-> "MultipleObjectsReturned"]
            ELSE ImportLoop(db, updated, rows, i + 1)

\* upload_sessions_excel(request), views.py 1004-1129: staff_member_required
\* sends every other requester to the admin login; every path of the view
\* itself, the except clause of line 1121 included, redirects to the session
\* list. The form is valid when a file is posted.
upload_sessions_excel(u, method, sheet) ==
    /\ UNCHANGED <<users, companies, departments, activities, learnings, client>>
    /\ LET answer(r) == call' = Request("upload_sessions_excel", u, method,
                                        MissingPk, sheet, sessions, r)
       IN IF ~is_staff(users, u)
          THEN answer(Redirect("admin:login")) /\ UNCHANGED sessions
          ELSE IF method # "POST" \/ sheet = NoPost
                  \/ sheet.headers # expected_headers
          THEN answer(Redirect("session_list")) /\ UNCHANGED sessions
          ELSE /\ sessions' = ImportLoop(users, sessions, sheet.rows, 1).sessions
               /\ answer(Redirect("session_list"))

\* The response that carries a generated workbook.
Download(file) == [kind |-> "download", to |-> "sessions.xlsx", file |-> file]

\* a.date is earlier than b.date, or equal with the smaller primary key.
Earlier(table, a, b) ==
    LET x == table[a].date
        y == table[b].date
    IN \/ x[1] < y[1]
       \/ x[1] = y[1] /\ x[2] < y[2]
       \/ x[1] = y[1] /\ x[2] = y[2] /\ x[3] < y[3]
       \/ x = y /\ a < b

\* df.sort_values(by="Date"): the keys in pks in the order of their dates.
RECURSIVE SortedByDate(_, _)
SortedByDate(table, pks) ==
    IF pks = {} THEN <<>>
    ELSE LET first == CHOOSE a \in pks :
                          \A b \in pks \ {a} : Earlier(table, a, b)
         IN <<first>> \o SortedByDate(table, pks \ {first})

\* export_sessions(request), views.py 936-1000: staff_member_required. The
\* header row is df.columns; a date cell is written with strftime
\* ("%Y/%m/%d"). With no Pending session the DataFrame has no columns and
\* sort_values(by="Date") raises KeyError.
export_sessions(u) ==
    /\ UNCHANGED <<users, entities, activities, client>>
    /\ LET pending == {k \in DOMAIN sessions : sessions[k].status = "Pending"}
           order == SortedByDate(sessions, pending)
           line(k) ==
               [date_str |-> [sep |-> "/", ymd |-> sessions[k].date],
                topic |-> sessions[k].topic,
                status |-> sessions[k].status,
                assigned_to |-> <<users[sessions[k].conducted_by].first_name,
                                  users[sessions[k].conducted_by].last_name>>,
                place |-> sessions[k].place]
           file == [headers |-> export_columns,
                    rows |-> [n \in DOMAIN order |-> line(order[n])]]
           answer(r) == call' = Request("export_sessions", u, "GET",
                                        MissingPk, NoPost, NoRow, r)
       IN IF ~is_staff(users, u) THEN answer(Redirect("admin:login"))
          ELSE IF pending = {} THEN answer(ServerError("KeyError"))
          ELSE answer(Download(file))

(***************************************************************************)
(* Specification SpecViews: any sequence of edit requests on the accounts  *)
(* of RBACTests.setUp (a super admin, the admin and an employee of company *)
(* A), with a manager of A and an employee of B, one department and one    *)
(* session in each company.                                                *)
(***************************************************************************)
ViewUsers ==
    << NoProfile(TRUE),
       [is_staff |-> FALSE, profile |-> TRUE, company |-> "CompanyA",
        role |-> "ADMIN", department |-> NoDepartment],
       [is_staff |-> FALSE, profile |-> TRUE, company |-> "CompanyA",
        role |-> "EMPLOYEE", department |-> NoDepartment],
       [is_staff |-> FALSE, profile |-> TRUE, company |-> "CompanyA",
        role |-> "MANAGER", department |-> NoDepartment],
       [is_staff |-> FALSE, profile |-> TRUE, company |-> "CompanyB",
        role |-> "EMPLOYEE", department |-> NoDepartment] >>

ViewCompanies ==
    [c \in Companies |->
        [name |-> IF c = "CompanyA" THEN "Company One" ELSE "Company Two"]]

ViewDepartments ==
    << [name |-> "Sales", description |-> "", company |-> "CompanyA"],
       [name |-> "Sales", description |-> "", company |-> "CompanyB"] >>

\* The employee of each company (accounts 3 and 5 of ViewUsers) conducts its
\* session.
ConductorOf(c) ==
    CHOOSE a \in DOMAIN ViewUsers :
        ViewUsers[a].company = c /\ ViewUsers[a].role = "EMPLOYEE"

ViewSession(c) ==
    [topic |-> "Intro", conducted_by |-> ConductorOf(c), company |-> c,
     date |-> "2024-01-15T10:00", status |-> "Pending",
     place |-> "Auditorium", cancelled_reason |-> ""]

ViewSessions == << ViewSession("CompanyA"), ViewSession("CompanyB") >>

\* One ExternalTopic in each company.
ViewLearnings ==
    << [coming_soon |-> "TLA+", company |-> "CompanyA"],
       [coming_soon |-> "TLA+", company |-> "CompanyB"] >>

CompanyPosts == [name : {"", "Company Two", "Company One Updated"}]

DepartmentPosts ==
    [name : {"", "Sales", "Support"}, description : {""},
     company : CompanyOrNone]

SessionPosts ==
    [topic : {"Intro", "Advanced"}, conducted_by : DOMAIN ViewUsers,
     company : Companies, date : {"2024-01-15T10:00"},
     status : {"Completed"}, place : {"Auditorium"},
     cancelled_reason : {""}]

InitViews ==
    /\ users = ViewUsers
    /\ companies = ViewCompanies
    /\ departments = ViewDepartments
    /\ sessions = ViewSessions
    /\ learnings = ViewLearnings
    /\ activities = <<>>
    /\ client = NoUser
    /\ call = NoCall

Requesters == DOMAIN users \cup {NoUser}

\* Requests are served while fewer than MaxLogged activities are logged.
Serving == Len(activities) < MaxLogged

CompanyEditGet ==
    /\ Serving
    /\ \E u \in Requesters, pk \in Companies \cup {MissingCompany} :
           company_edit_view(u, "GET", pk, NoPost)

CompanyEditPost ==
    /\ Serving
    /\ \E u \in Requesters, pk \in Companies \cup {MissingCompany},
          post \in CompanyPosts :
           company_edit_view(u, "POST", pk, post)

CompanyDetailGet ==
    /\ Serving
    /\ \E u \in Requesters, pk \in Companies \cup {MissingCompany} :
           company_detail_view(u, pk)

DepartmentEditGet ==
    /\ Serving
    /\ \E u \in Requesters, pk \in DOMAIN departments \cup {MissingPk} :
           department_edit(u, "GET", pk, NoPost)

DepartmentEditPost ==
    /\ Serving
    /\ \E u \in Requesters, pk \in DOMAIN departments \cup {MissingPk},
          post \in DepartmentPosts :
           department_edit(u, "POST", pk, post)

SessionEditGet ==
    /\ Serving
    /\ \E u \in Requesters, pk \in DOMAIN sessions \cup {MissingPk} :
           edit_session_view(u, "GET", pk, NoPost)

SessionEditPost ==
    /\ Serving
    /\ \E u \in Requesters, pk \in DOMAIN sessions \cup {MissingPk},
          post \in SessionPosts :
           edit_session_view(u, "POST", pk, post)

SessionDelete ==
    /\ Serving
    /\ \E u \in Requesters, pk \in DOMAIN sessions \cup {MissingPk} :
           delete_session_view(u, pk)

NextViews ==
    \/ CompanyEditGet
    \/ CompanyEditPost
    \/ CompanyDetailGet
    \/ DepartmentEditGet
    \/ DepartmentEditPost
    \/ SessionEditGet
    \/ SessionEditPost
    \/ SessionDelete

SpecViews == InitViews /\ [][NextViews]_vars

(***************************************************************************)
(* Specification SpecAddUser: any sequence of add_user requests, by any    *)
(* requester, on the accounts and companies of InitViews.                  *)
(***************************************************************************)
\* The posted username is empty or the one of the account to be created; a
\* posted company of None or role of NoRole is a field left out.
CreationPosts ==
    [username : {"", Username(Len(users) + 1)}, company : CompanyOrNone,
     role : Roles \cup {NoRole}]

EditPosts ==
    [company : CompanyOrNone, role : Roles \cup {NoRole},
     department : {NoDepartment}]

\* A GET, or a POST of one of the forms in posts.
Submissions(posts) ==
    {[method |-> "GET", post |-> NoPost]}
    \cup {[method |-> "POST", post |-> post] : post \in posts}

AddUser ==
    /\ Serving
    /\ \E u \in Requesters, r \in Submissions(CreationPosts) :
           add_user(u, r.method, r.post)

NextAddUser == AddUser

SpecAddUser == InitViews /\ [][NextAddUser]_vars

(***************************************************************************)
(* Specification SpecNonStaff: any sequence of add_user, edit_user and     *)
(* my_profile requests by accounts that are not staff, starting from       *)
(* InitViews or from the state in which company A of InitViews has been    *)
(* deleted.                                                                *)
(***************************************************************************)
\* ViewUsers after company_delete_view deleted CompanyA.
OrphanedUsers ==
    [a \in DOMAIN ViewUsers |->
        IF ViewUsers[a].company = "CompanyA"
        THEN [ViewUsers[a] EXCEPT !.company = NoCompany]
        ELSE ViewUsers[a]]

InitNonStaff ==
    /\ \/ /\ users = ViewUsers
          /\ companies = ViewCompanies
          /\ departments = ViewDepartments
          /\ sessions = ViewSessions
          /\ learnings = ViewLearnings
       \/ /\ users = OrphanedUsers
          /\ companies = Without(ViewCompanies, {"CompanyA"})
          /\ departments = NotOf(ViewDepartments, "CompanyA")
          /\ sessions = NotOf(ViewSessions, "CompanyA")
          /\ learnings = NotOf(ViewLearnings, "CompanyA")
    /\ activities = <<>>
    /\ client = NoUser
    /\ call = NoCall

NonStaffRequesters == {u \in DOMAIN users : ~users[u].is_staff}

NonStaffAddUser ==
    /\ Serving
    /\ \E u \in NonStaffRequesters, r \in Submissions(CreationPosts) :
           add_user(u, r.method, r.post)

NonStaffEditUser ==
    /\ Serving
    /\ \E u \in NonStaffRequesters, t \in DOMAIN users \cup {MissingPk},
          r \in Submissions(EditPosts) :
           edit_user(u, r.method, t, r.post)

NonStaffMyProfile ==
    /\ Serving
    /\ \E u \in NonStaffRequesters, r \in Submissions(EditPosts) :
           my_profile(u, r.method, r.post)

NextNonStaff ==
    \/ NonStaffAddUser
    \/ NonStaffEditUser
    \/ NonStaffMyProfile

SpecNonStaff == InitNonStaff /\ [][NextNonStaff]_vars

(***************************************************************************)
(* Specification SpecUsers: any sequence of edit_user and                  *)
(* company_delete_view requests, by any requester, on a super admin, the   *)
(* admin and an employee of company A, and a session the employee conducts.*)
(***************************************************************************)
InitUsers ==
    /\ users = SubSeq(ViewUsers, 1, 3)
    /\ companies = ViewCompanies
    /\ departments = ViewDepartments
    /\ sessions = <<ViewSession("CompanyA")>>
    /\ learnings = ViewLearnings
    /\ activities = <<>>
    /\ client = NoUser
    /\ call = NoCall

EditUser ==
    /\ Serving
    /\ \E u \in Requesters, t \in DOMAIN users \cup {MissingPk},
          r \in Submissions(EditPosts) :
           edit_user(u, r.method, t, r.post)

CompanyDelete ==
    /\ Serving
    /\ \E u \in Requesters, pk \in Companies \cup {MissingCompany},
          method \in Methods :
           company_delete_view(u, method, pk)

NextUsers ==
    \/ EditUser
    \/ CompanyDelete

SpecUsers == InitUsers /\ [][NextUsers]_vars

(***************************************************************************)
(* Specification SpecAuth: a client that logs in, requests the dashboard   *)
(* and logs out, in any order, with the accounts of InitViews.             *)
(***************************************************************************)
\* The longest activity feed SpecAuth lets the login and logout views write.
MaxAuthLogged == 4

AuthServing == Len(activities) < MaxAuthLogged

Login ==
    /\ AuthServing
    /\ \E method \in Methods, account \in DOMAIN users \cup {NoUser} :
           user_login(method, account)

Logout == AuthServing /\ user_logout

Dashboard == AuthServing /\ home

NextAuth ==
    \/ Login
    \/ Logout
    \/ Dashboard

SpecAuth == InitViews /\ [][NextAuth]_vars

(***************************************************************************)
(* Specification SpecDepartments: any sequence of department_create and    *)
(* department_edit requests, by any requester, starting with the one       *)
(* department Sales of company A.                                          *)
(***************************************************************************)
InitDepartments ==
    /\ users = ViewUsers
    /\ companies = ViewCompanies
    /\ departments = SubSeq(ViewDepartments, 1, 1)
    /\ sessions = ViewSessions
    /\ learnings = ViewLearnings
    /\ activities = <<>>
    /\ client = NoUser
    /\ call = NoCall

DepartmentCreate ==
    /\ Serving
    /\ \E u \in Requesters, r \in Submissions(DepartmentPosts) :
           department_create(u, r.method, r.post)

NextDepartments ==
    \/ DepartmentCreate
    \/ DepartmentEditGet
    \/ DepartmentEditPost

SpecDepartments == InitDepartments /\ [][NextDepartments]_vars

(***************************************************************************)
(* Specification SpecActivities: departments are created and companies     *)
(* deleted, which writes and removes activities, and any account opens     *)
(* its recent activities at any time.                                      *)
(***************************************************************************)
RecentActivities == \E u \in Requesters : recent_activities(u)

NextActivities ==
    \/ DepartmentCreate
    \/ CompanyDelete
    \/ RecentActivities

SpecActivities == InitViews /\ [][NextActivities]_vars

(***************************************************************************)
(* Specification SpecImport: spreadsheets of up to MaxRows rows are        *)
(* uploaded, again and again. Jane Doe conducts the session Intro to X;    *)
(* two accounts are named Sam Twin.                                        *)
(***************************************************************************)
MaxRows == 2

Named(row, first, last) ==
    [is_staff |-> row.is_staff, profile |-> row.profile,
     company |-> row.company, role |-> row.role,
     department |-> row.department,
     first_name |-> first, last_name |-> last]

ImportUsers ==
    << Named(ViewUsers[1], "Super", "Admin"),
       Named(ViewUsers[3], "Jane", "Doe"),
       Named(ViewUsers[4], "Sam", "Twin"),
       Named(ViewUsers[5], "Sam", "Twin") >>

ImportSessions ==
    << [topic |-> "Intro to X", conducted_by |-> 2, company |-> "CompanyA",
        date |-> <<2023, 12, 1>>, status |-> "Pending",
        place |-> "Customer Lounge", cancelled_reason |-> None] >>

\* The row of the literal case: ("1", "Intro to X", "2024/01/15", "Pending",
\* "Jane Doe", "Auditorium", "").
LiteralRow ==
    [no |-> "1", topic |-> "Intro to X",
     date_str |-> [sep |-> "/", ymd |-> <<2024, 1, 15>>],
     status |-> "Pending", assigned_to |-> <<"Jane", "Doe">>,
     place |-> "Auditorium", cancelled_reason |-> ""]

\* Three valid rows, and the literal row with one cell changed: an empty
\* topic, a date with dashes, a day that does not exist, an assignee that
\* matches two accounts, one that matches none, a status and a place that are
\* not choices.
SheetRows ==
    { LiteralRow,
      [LiteralRow EXCEPT !.status = "Completed"],
      [LiteralRow EXCEPT !.topic = "Advanced"],
      [LiteralRow EXCEPT !.topic = ""],
      [LiteralRow EXCEPT !.date_str = [sep |-> "-", ymd |-> <<2024, 1, 15>>]],
      [LiteralRow EXCEPT !.date_str = [sep |-> "/", ymd |-> <<2023, 2, 29>>]],
      [LiteralRow EXCEPT !.assigned_to = <<"Sam", "Twin">>],
      [LiteralRow EXCEPT !.assigned_to = <<"No", "Body">>],
      [LiteralRow EXCEPT !.status = "Done"],
      [LiteralRow EXCEPT !.place = "Garage"] }

RowLists == UNION {[1..n -> SheetRows] : n \in 0..MaxRows}

Sheets == [headers : {expected_headers}, rows : RowLists]

InitImport ==
    /\ users = ImportUsers
    /\ companies = ViewCompanies
    /\ departments = ViewDepartments
    /\ sessions = ImportSessions
    /\ learnings = ViewLearnings
    /\ activities = <<>>
    /\ client = NoUser
    /\ call = NoCall

Upload ==
    \E u \in {a \in DOMAIN users : users[a].is_staff}, sheet \in Sheets :
        upload_sessions_excel(u, "POST", sheet)

UploadRefused ==
    \E u \in Requesters, method \in Methods :
        /\ method = "POST" => ~is_staff(users, u)
        /\ upload_sessions_excel(u, method,
              IF method = "POST"
              THEN [headers |-> expected_headers, rows |-> <<LiteralRow>>]
              ELSE NoPost)

Export == \E u \in Requesters : export_sessions(u)

\* The workbook just downloaded is uploaded as it is.
UploadExported ==
    /\ call.op = "export_sessions"
    /\ call.response.kind = "download"
    /\ upload_sessions_excel(call.user, "POST", call.response.file)

NextImport ==
    \/ Upload
    \/ UploadRefused
    \/ Export
    \/ UploadExported

SpecImport == InitImport /\ [][NextImport]_vars

(***************************************************************************)
(* Specification SpecRace: NumRequests requests to edit_session_view on    *)
(* the session of company A run concurrently, each in two steps.           *)
(***************************************************************************)
NumRequests == 2

\* The super admin, the admin of company A and its employee.
RaceRequesters == 1..3

RacePosts ==
    {post \in SessionPosts :
        /\ post.conducted_by \in 2..3
        /\ post.company = "CompanyA" \/ post.topic = "Intro"}

InitRace ==
    /\ users = ViewUsers
    /\ companies = ViewCompanies
    /\ departments = ViewDepartments
    /\ sessions = ViewSessions
    /\ learnings = ViewLearnings
    /\ activities = <<>>
    /\ client = NoUser
    /\ call = [p \in 1..NumRequests |-> Idle]

Validate ==
    \E p \in DOMAIN call, u \in RaceRequesters, post \in RacePosts :
        edit_session_view_validate(p, u, 1, post)

Save == \E p \in DOMAIN call : edit_session_view_save(p)

NextRace ==
    \/ Validate
    \/ Save

SpecRace == InitRace /\ [][NextRace]_vars

(***************************************************************************)
(* Specification SpecDelete: accounts and companies are deleted, by any    *)
(* requester, in any order.                                                *)
(***************************************************************************)
DeleteUser ==
    /\ Serving
    /\ \E u \in Requesters, pk \in DOMAIN users \cup {MissingPk} :
           delete_user(u, pk)

NextDelete ==
    \/ DeleteUser
    \/ CompanyDelete

SpecDelete == InitViews /\ [][NextDelete]_vars

(***************************************************************************)
(* Specification SpecLists: the three lists are requested by any account   *)
(* while departments are created and companies and accounts deleted.       *)
(***************************************************************************)
AllSessions == \E u \in Requesters : all_sessions_view(u)

Learning == \E u \in Requesters : learning_view(u)

DepartmentList == \E u \in Requesters : department_list(u)

NextLists ==
    \/ AllSessions
    \/ Learning
    \/ DepartmentList
    \/ DepartmentCreate
    \/ CompanyDelete
    \/ DeleteUser

SpecLists == InitViews /\ [][NextLists]_vars

(***************************************************************************)
(* Specification SpecProfiles: add_user, edit_user and my_profile requests *)
(* that post a company and a department, on the accounts of InitUsers.     *)
(***************************************************************************)
ProfilePosts ==
    [company : CompanyOrNone, role : {"EMPLOYEE"},
     department : DOMAIN ViewDepartments \cup {NoDepartment}]

ProfileEditUser ==
    /\ Serving
    /\ \E u \in Requesters, t \in DOMAIN users,
          r \in Submissions(ProfilePosts) :
           edit_user(u, r.method, t, r.post)

ProfileMyProfile ==
    /\ Serving
    /\ \E u \in Requesters, r \in Submissions(ProfilePosts) :
           my_profile(u, r.method, r.post)

NextProfiles ==
    \/ ProfileEditUser
    \/ ProfileMyProfile
    \/ AddUser

SpecProfiles == InitUsers /\ [][NextProfiles]_vars

(***************************************************************************)
(* Claims about the edit views, checked under SpecViews.                   *)
(***************************************************************************)
\* The company that owns the target of the last edit request.
TargetCompany ==
    IF call.op = "company_edit_view" THEN call.pk ELSE call.before.company

\* The target row as it is now.
TargetNow ==
    IF call.op = "company_edit_view" THEN companies[call.pk]
    ELSE IF call.op = "department_edit" THEN departments[call.pk]
    ELSE sessions[call.pk]

\* The last request is an edit, by a Company Admin, of an existing entity
\* of another company than the admin's own.
CrossCompanyEdit ==
    /\ call.op \in {"company_edit_view", "department_edit", "edit_session_view"}
    /\ call.before # NoRow
    /\ call.user # NoUser
    /\ ~users[call.user].is_staff
    /\ users[call.user].profile
    /\ users[call.user].role = "ADMIN"
    /\ users[call.user].company \in Companies
    /\ TargetCompany # users[call.user].company

\* C10 (as claimed): a Company Admin of company A who requests the edit of
\* company B, of a department of B or of a session of B gets a redirect, and
\* the targeted entity is left unchanged.
C10_Claim ==
    CrossCompanyEdit =>
        /\ call.response.kind = "redirect"
        /\ TargetNow = call.before

\* The requester of the last request is a Company Admin (a non-staff account
\* whose profile has role ADMIN) of the company the request names.
OwnCompanyAdmin ==
    /\ call.user # NoUser
    /\ call.before # NoRow
    /\ ~users[call.user].is_staff
    /\ users[call.user].profile
    /\ users[call.user].role = "ADMIN"
    /\ users[call.user].company = call.pk

\* C11 (as claimed): a Company Admin of company A who posts a valid edit of
\* company A gets the name updated and a redirect to the detail page of A,
\* and the detail page of A is served to this admin.
C11_Claim ==
    /\ (/\ call.op = "company_edit_view"
        /\ call.method = "POST"
        /\ OwnCompanyAdmin
        /\ CompanyFormValid(call.pk, call.post))
       => /\ companies[call.pk].name = call.post.name
          /\ call.response = Redirect("company_detail")
    /\ (call.op = "company_detail_view" /\ OwnCompanyAdmin)
       => call.response.kind = "render"

\* The permission each view is documented to require of the requester of
\* the last request, on the target as it was when the request arrived.
Permitted ==
    LET u == call.user
    IN IF call.op = "company_edit_view"
       THEN is_super_admin(users, u) \/ is_company_admin(users, u, call.pk)
       ELSE IF call.op = "department_edit"
       THEN \/ is_super_admin(users, u)
            \/ is_company_admin(users, u, call.before.company)
       ELSE \/ is_super_admin(users, u)
            \/ is_company_admin(users, u, call.before.company)
            \/ is_manager(users, u, call.before.company)
            \/ /\ is_employee(users, u, call.before.company)
               /\ call.before.conducted_by = u

\* C12 (as claimed): a request to a permission-checking view by an
\* authenticated account that lacks the permission ends in a redirect, never
\* in an unhandled exception.
C12_Claim ==
    (/\ call.op \in {"company_edit_view", "department_edit",
                     "edit_session_view", "delete_session_view"}
     /\ call.user # NoUser
     /\ call.before # NoRow
     /\ ~Permitted)
    => call.response.kind = "redirect"

(***************************************************************************)
(* Claims about add_user, checked under SpecAddUser.                       *)
(***************************************************************************)
\* The last request is a POST to add_user whose username is given.
AddUserPosted ==
    /\ call.op = "add_user"
    /\ call.method = "POST"
    /\ call.user # NoUser
    /\ call.post.username # ""

\* C13 (as claimed): when a super admin submits add_user with valid data, a
\* company C and a role R, the request redirects and the new account exists
\* with a profile of company C and role R.
C13_Claim ==
    (/\ AddUserPosted
     /\ is_super_admin(users, call.user)
     /\ call.post.company \in DOMAIN companies
     /\ call.post.role \in Roles)
    => /\ call.response.kind = "redirect"
       /\ call.pk \in DOMAIN users
       /\ users[call.pk].profile
       /\ users[call.pk].company = call.post.company
       /\ users[call.pk].role = call.post.role

\* C14 (as claimed): when a Company Admin of company A submits add_user with
\* valid data, role EMPLOYEE or MANAGER and no company field, the account is
\* created and its profile is set to company A with the submitted role.
C14_Claim ==
    (/\ AddUserPosted
     /\ ~users[call.user].is_staff
     /\ users[call.user].profile
     /\ users[call.user].role = "ADMIN"
     /\ users[call.user].company \in DOMAIN companies
     /\ call.post.company = NoCompany
     /\ call.post.role \in {"EMPLOYEE", "MANAGER"})
    => /\ call.pk \in DOMAIN users
       /\ users[call.pk].profile
       /\ users[call.pk].company = users[call.user].company
       /\ users[call.pk].role = call.post.role

\* C16: an add_user request, GET or POST, by an authenticated account that
\* is neither staff nor holds profile role ADMIN is redirected to the
\* dashboard, and no account or profile is created.
C16_NoPermissionNoAccount ==
    [][(/\ call'.op = "add_user"
        /\ call'.user # NoUser
        /\ ~users[call'.user].is_staff
        /\ ~(users[call'.user].profile /\ users[call'.user].role = "ADMIN"))
       => /\ call'.response = Redirect("dashboard")
          /\ users' = users]_vars

\* An account without profile, created by an earlier add_user, has posted to
\* add_user and was sent to the dashboard.
C16_Witness ==
    /\ call.op = "add_user"
    /\ call.method = "POST"
    /\ call.user # NoUser
    /\ ~users[call.user].is_staff
    /\ ~users[call.user].profile
    /\ call.response = Redirect("dashboard")

(***************************************************************************)
(* Claims about the requests of non-staff accounts, checked under          *)
(* SpecNonStaff.                                                           *)
(***************************************************************************)
\* The requester of the step's request is a Company Admin.
AdminRequests ==
    /\ call'.user # NoUser
    /\ users[call'.user].profile
    /\ users[call'.user].role = "ADMIN"

\* C15: no add_user, edit_user or my_profile request of a non-staff account
\* creates an account with role ADMIN or changes a profile's role to ADMIN,
\* and a Company Admin submitting add_user with role ADMIN gets no redirect
\* and creates no account.
C15_NoNewAdmin ==
    [][/\ \A a \in DOMAIN users' :
             users'[a].role = "ADMIN"
             => a \in DOMAIN users /\ users[a].role = "ADMIN"
       /\ (/\ call'.op = "add_user"
           /\ call'.method = "POST"
           /\ AdminRequests
           /\ call'.post.role = "ADMIN")
          => /\ call'.response.kind # "redirect"
             /\ users' = users]_vars

\* A Company Admin has posted role ADMIN for an employee of the own company
\* through edit_user; the form was rejected and the role is unchanged.
C15_Witness ==
    /\ call.op = "edit_user"
    /\ call.method = "POST"
    /\ call.before # NoRow
    /\ call.user # NoUser
    /\ users[call.user].profile
    /\ users[call.user].role = "ADMIN"
    /\ call.post.role = "ADMIN"
    /\ call.before.role = "EMPLOYEE"
    /\ call.before.company = users[call.user].company
    /\ call.response.kind = "render"
    /\ users[call.pk].role = "EMPLOYEE"

(***************************************************************************)
(* Claims about the invariants of the data, checked under SpecUsers.       *)
(***************************************************************************)
\* C18 (as claimed): the conductor of each SessionTopic has a profile whose
\* company equals the session's company.
C18_Claim ==
    \A s \in DOMAIN sessions :
        /\ users[sessions[s].conducted_by].profile
        /\ users[sessions[s].conducted_by].company = sessions[s].company

\* C20 (as claimed): no profile has role ADMIN and no company.
C20_Claim ==
    \A a \in DOMAIN users :
        (users[a].profile /\ users[a].role = "ADMIN")
        => users[a].company # NoCompany

(***************************************************************************)
(* Claims about the dashboard, checked under SpecAuth.                     *)
(***************************************************************************)
\* C17 (as claimed): a request to the dashboard by an unauthenticated
\* client, also after a login followed by a logout, is redirected to the
\* login page; the dashboard is never rendered without an authenticated
\* account.
C17_Claim ==
    (call.op = "home" /\ call.user = NoUser)
    => call.response = Redirect("login")

(***************************************************************************)
(* Claims about the departments, checked under SpecDepartments.            *)
(***************************************************************************)
\* No two departments of the same company share a name.
UniqueDepartments ==
    \A d1, d2 \in DOMAIN departments :
        (/\ d1 # d2
         /\ departments[d1].name = departments[d2].name)
        => departments[d1].company # departments[d2].company

\* The step's request posts to department_create or department_edit a
\* (name, company) pair that another department already has.
PostsDuplicate ==
    /\ call'.op \in {"department_create", "department_edit"}
    /\ call'.method = "POST"
    /\ \E d \in DOMAIN departments :
          /\ ~(call'.op = "department_edit" /\ d = call'.pk)
          /\ departments[d].name = call'.post.name
          /\ departments[d].company = call'.post.company

\* The step's request is a super admin's department_create of a name that
\* exists under another company only.
PostsNameOfOtherCompany ==
    /\ call'.op = "department_create"
    /\ call'.method = "POST"
    /\ is_super_admin(users, call'.user)
    /\ call'.post.company \in DOMAIN companies
    /\ \E d \in DOMAIN departments :
          departments[d].name = call'.post.name
    /\ \A d \in DOMAIN departments :
          departments[d].name = call'.post.name
          => departments[d].company # call'.post.company

\* C19: no two departments of the same company ever share a name; a
\* department_create or department_edit that would produce a second one is
\* rejected and stores nothing, and the same name under a different company
\* is accepted.
C19_UniqueNamePerCompany ==
    [][/\ UniqueDepartments'
       /\ PostsDuplicate => departments' = departments
       /\ PostsNameOfOtherCompany
          => departments' = Inserted(departments, call'.post)]_vars

\* Two departments of different companies share a name, the later one
\* stored by department_create.
C19_Witness ==
    /\ call.op = "department_create"
    /\ call.response.kind = "redirect"
    /\ call.pk \in DOMAIN departments
    /\ \E d \in DOMAIN departments :
          /\ d # call.pk
          /\ departments[d].name = departments[call.pk].name
          /\ departments[d].company # departments[call.pk].company

(***************************************************************************)
(* Claims about the activity feed, checked under SpecActivities.           *)
(***************************************************************************)
\* The rows of the feed that the step does not delete: company.delete()
\* removes the rows of the deleted company, nothing else removes a row.
Surviving ==
    IF call'.op = "company_delete_view" /\ call'.method = "POST"
       /\ call'.response = Redirect("company_list")
    THEN SelectSeq(activities, LAMBDA row : row.company # call'.pk)
    ELSE activities

\* C21: an existing RecentActivity keeps its recipient, description, company
\* and place in the order of creation; the only change to an existing row is
\* read going from false to true, made only when the row's recipient opens
\* recent_activities, which leaves the rows of every other account as they
\* were.
C21_OnlyReadChanges ==
    [][/\ Len(activities') >= Len(Surviving)
       /\ \A i \in DOMAIN Surviving :
             /\ activities'[i].user = Surviving[i].user
             /\ activities'[i].description = Surviving[i].description
             /\ activities'[i].company = Surviving[i].company
             /\ activities'[i].read # Surviving[i].read
                => /\ ~Surviving[i].read
                   /\ activities'[i].read
                   /\ call'.op = "recent_activities"
                   /\ call'.user = Surviving[i].user]_vars

\* An account has opened recent_activities: its row is read, while a row of
\* another account is still unread.
C21_Witness ==
    /\ call.op = "recent_activities"
    /\ \E i, j \in DOMAIN activities :
          /\ activities[i].user = call.user
          /\ activities[i].read
          /\ activities[j].user # call.user
          /\ ~activities[j].read

\* C25: a company is removed only by a POST to company_delete_view from a
\* staff account, which removes that company; a GET by a staff account
\* answers the confirmation page and removes nothing; no request of a
\* non-staff account removes a company.
C25_OnlyStaffPostDeletes ==
    [][/\ DOMAIN companies' # DOMAIN companies
          => /\ call'.op = "company_delete_view"
             /\ call'.method = "POST"
             /\ is_staff(users, call'.user)
             /\ DOMAIN companies' = DOMAIN companies \ {call'.pk}
       /\ (/\ call'.op = "company_delete_view"
           /\ call'.method = "GET"
           /\ is_staff(users, call'.user)
           /\ call'.pk \in DOMAIN companies)
          => /\ call'.response = Render("company_confirm_delete.html")
             /\ companies' = companies]_vars

\* A staff account's POST has removed a company that a GET had left in place.
C25_Witness ==
    /\ call.op = "company_delete_view"
    /\ call.method = "POST"
    /\ is_staff(users, call.user)
    /\ call.before # NoRow
    /\ call.pk \notin DOMAIN companies

(***************************************************************************)
(* Claims about the import, checked under SpecImport.                      *)
(***************************************************************************)
\* A row the import has nothing to reject: a topic, a date that parses, an
\* assignee that names exactly one account, a status and a place that are
\* choices.
ValidRow(row) ==
    /\ row.topic # ""
    /\ DateParses(row.date_str)
    /\ Len(row.assigned_to) >= 2
    /\ Cardinality(NameMatches(users, row.assigned_to)) = 1
    /\ row.status \in STATUSES
    /\ row.place \in PLACE_CHOICES

Assignee(row) == CHOOSE a \in NameMatches(users, row.assigned_to) : TRUE

\* The last request was a staff upload of a sheet with the required headers.
Imported ==
    /\ call.op = "upload_sessions_excel"
    /\ call.method = "POST"
    /\ is_staff(users, call.user)
    /\ call.post.headers = expected_headers

\* Row i is valid and no later valid row of the sheet has its pair.
LastOfPair(rows, i) ==
    /\ ValidRow(rows[i])
    /\ \A j \in DOMAIN rows :
          (j > i /\ ValidRow(rows[j]))
          => ~(/\ rows[j].topic = rows[i].topic
               /\ Assignee(rows[j]) = Assignee(rows[i]))

\* The stored sessions of the row's pair carry the row's values.
Stored(row) ==
    \A k \in PairMatches(sessions, row.topic, Assignee(row)) :
        /\ sessions[k].date = ParsedDate(row.date_str)
        /\ sessions[k].status = row.status
        /\ sessions[k].place = row.place

\* C22 (as claimed): after the import of a sheet whose rows are all valid,
\* each row's (topic, conducted_by) pair has exactly one SessionTopic,
\* created if the pair did not exist and updated if it did, whose date,
\* status and place are the values of the last row of the pair.
C22_Claim ==
    (Imported /\ \A i \in DOMAIN call.post.rows : ValidRow(call.post.rows[i]))
    => \A i \in DOMAIN call.post.rows :
          LET row == call.post.rows[i]
          IN /\ Cardinality(PairMatches(sessions, row.topic, Assignee(row))) = 1
             /\ LastOfPair(call.post.rows, i) => Stored(row)

\* C23 (as claimed): the import always redirects to the session list, and a
\* row that fails is the only row skipped: every valid row is processed,
\* whatever rows precede it. Stated for sheets whose valid rows all update a
\* session that existed before the import.
C23_Claim ==
    (/\ Imported
     /\ \A i \in DOMAIN call.post.rows :
           ValidRow(call.post.rows[i])
           => PairMatches(call.before, call.post.rows[i].topic,
                          Assignee(call.post.rows[i])) # {})
    => /\ call.response = Redirect("session_list")
       /\ \A i \in DOMAIN call.post.rows :
             LastOfPair(call.post.rows, i) => Stored(call.post.rows[i])

\* C24 (as claimed): the header row export_sessions writes is the header
\* list upload_sessions_excel requires.
C24_Claim ==
    (call.op = "export_sessions" /\ call.response.kind = "download")
    => call.response.file.headers = expected_headers

(***************************************************************************)
(* Claims about concurrent edits, checked under SpecRace.                  *)
(***************************************************************************)
\* C26: requests to edit_session_view on one session that interleave all
\* succeed, none is answered with an error once its form was valid, and the
\* stored session has every field value of the request that saved last.
C26_LastWriteWins ==
    \A p \in DOMAIN call :
        call[p].turn > 0
        => /\ call[p].response = Redirect("session_list")
           /\ call[p].turn = Saves => sessions[call[p].pk] = call[p].post

\* Two requests were both validated before either saved, both have saved,
\* and they posted different topics and different conductors.
C26_Witness ==
    \E p, q \in DOMAIN call :
        /\ call[p].turn = 1
        /\ call[q].turn = 2
        /\ call[p].before = call[q].before
        /\ call[p].post.topic # call[q].post.topic
        /\ call[p].post.conducted_by # call[q].post.conducted_by
        /\ call[q].post.topic = call[q].before.topic

(***************************************************************************)
(* Claims about delete_user, checked under SpecDelete.                     *)
(***************************************************************************)
\* The cases in which the claim lets actor a delete target t.
MayDelete(a, t) ==
    \/ is_super_admin(users, a) /\ ~users[t].is_staff
    \/ /\ a # NoUser
       /\ users[a].profile
       /\ users[a].role = "ADMIN"
       /\ users[t].profile
       /\ ~users[t].is_staff
       /\ users[t].role # "ADMIN"
       /\ users[t].company # NoCompany
       /\ users[t].company = users[a].company

\* C27 (as claimed): delete_user removes the target only when the actor is a
\* super admin and the target is not staff, or the actor has role ADMIN and
\* the target is a non-staff, non-ADMIN account of the actor's own company,
\* which is a company; in every other case the target still exists and no
\* activity is logged.
C27_Claim ==
    [][(/\ call'.op = "delete_user"
        /\ call'.pk \in DOMAIN users
        /\ ~MayDelete(call'.user, call'.pk))
       => /\ call'.pk \in DOMAIN users'
          /\ activities' = activities]_vars

(***************************************************************************)
(* Claims about the lists, checked under SpecLists.                        *)
(***************************************************************************)
\* The table a list view reads.
TableOf(op) ==
    IF op = "all_sessions_view" THEN sessions
    ELSE IF op = "learning_view" THEN learnings
    ELSE departments

\* The tables that differ from table only in the data of companies other
\* than company: some of the other companies' rows are gone, and the rest
\* belong to whichever other company.
OtherData(table, company) ==
    LET own == {k \in DOMAIN table : table[k].company = company}
        foreign == DOMAIN table \ own
    IN UNION {
         {[k \in own \cup kept |->
              IF k \in own THEN table[k]
              ELSE [table[k] EXCEPT !.company = moved[k]]] :
            moved \in [kept -> Companies \ {company}]} :
         kept \in SUBSET foreign}

\* The last request is a list shown to a non-staff account.
ListShown ==
    /\ call.op \in {"all_sessions_view", "learning_view", "department_list"}
    /\ call.user \in DOMAIN users
    /\ ~users[call.user].is_staff

\* C28: the list shown to a non-staff account has only rows of the account's
\* company and is empty when the account has no company; it is the list the
\* account would be shown in any state that differs only in the data of
\* other companies.
C28_OwnCompanyOnly ==
    ListShown
    => LET u == call.user
           rows == call.response.rows
       IN /\ \A k \in DOMAIN rows :
                /\ users[u].profile
                /\ rows[k].company # NoCompany
                /\ rows[k].company = users[u].company
          /\ \A other \in OtherData(TableOf(call.op), users[u].company) :
                Listed(users, other, u) = rows

\* An account of a company was shown a list with a row of its company while
\* the table also holds a row of another company.
C28_Witness ==
    /\ ListShown
    /\ DOMAIN call.response.rows # {}
    /\ \E k \in DOMAIN TableOf(call.op) :
          TableOf(call.op)[k].company # users[call.user].company

(***************************************************************************)
(* Claims about the profile's department, checked under SpecProfiles.      *)
(***************************************************************************)
\* C29 (as claimed): a profile that has both a department and a company has
\* a department of that company.
C29_Claim ==
    \A a \in DOMAIN users :
        (/\ users[a].profile
         /\ users[a].department # NoDepartment
         /\ users[a].company # NoCompany)
        => departments[users[a].department].company = users[a].company

====
